---- MODULE Spec2Model ----
(***************************************************************************)
(* Verification model of the Subaru telemetry platform.                    *)
(*                                                                         *)
(*   src/telemetry/ssm_logger.py                                           *)
(*     JsonlSpool            bounded line-delimited spool file             *)
(*     flush_spool, cmd_mqtt publish-or-spool telemetry loop               *)
(*     read_chunked          chunked SSM2 read with adaptive split         *)
(*     SSM2Client            frame construction and parsing                *)
(*                                                                         *)
(* The module holds several specifications over one set of variables:      *)
(*   Spec        the telemetry loop of cmd_mqtt                            *)
(*   SpoolSpec   the operations of JsonlSpool on their own                 *)
(*   FlushSpec   flush_spool on an arbitrary spool file                    *)
(*   OutageSpec  the telemetry loop through one broker outage              *)
(*   ChunkSpec   read_chunked (ChunkLiveSpec: with fairness of its passes) *)
(*   FrameSpec   _build_frame and _parse_frames                            *)
(*   RequestSpec SSM2Client.request on a noisy line                        *)
(*   CrashSpec   JsonlSpool when the process stops at any point            *)
(*   EcuSpec     the serial side of cmd_mqtt on a line that goes dead      *)
(*   ParamsSpec  RomRaiderSSM.params_for_rom on small logger documents     *)
(*   DecodeSpec  decode_rr_params and compile_expr                         *)
(*   DtcSpec     enumerate_supported_dtc_addr_pairs, both copies           *)
(*   AckSpec     mqtt_publish_checked and what the loop counts             *)
(*   RunSpec     the spool over one run that starts with leftover lines    *)
(*   DrainSpec   the drain of the spool while every publish succeeds       *)
(*                                                                         *)
(*   src/gps/mqtt_gps_map_server_latest.py                                 *)
(*     LapTiming             armed/running lap and split timing            *)
(*     SharedState           GPS ingress, per-driver timing, events        *)
(*     DriverRecordsStore    persisted sessions and laps                   *)
(*                                                                         *)
(*   LapSpec     one LapTiming object under any sequence of updates        *)
(*   JitterSpec  one LapTiming object with the car's net advance per lap   *)
(*   HudSpec     SharedState across updates, driver changes and restarts   *)
(*   PersistSpec DriverRecordsStore.persist when the process stops         *)
(*   LockSpec    SharedState.update step by step next to an HTTP handler   *)
(***************************************************************************)
EXTENDS Integers, Sequences, FiniteSets, TLC

(***************************************************************************)
(* Bounds of the model.                                                    *)
(***************************************************************************)
\* appends performed in SpoolSpec (must exceed TRIM_EVERY for trim to run)
MaxAppends == 102
\* largest argument of drop_first_lines tried in SpoolSpec
MaxDrop == 3
\* --samples of the telemetry loop in Spec
MaxSamples == 3
\* largest --flush-per-loop in Spec and FlushSpec
MaxFlush == 2
\* longest spool file FlushSpec starts from
MaxSpoolLen == 4
\* longest outage of OutageSpec (must reach TRIM_EVERY for trim to run)
MaxOutage == 100
\* ChunkSpec with an arbitrary link: addresses, initial chunk_size, retries
MaxAddrs == 4
MaxChunk == 4
MaxRetries == 2
\* ChunkSpec with the threshold link: addresses, initial chunk_size, largest K
StubAddrs == 84
StubChunk == 64
MaxK == 86
\* FrameSpec: longest payload built from every combination of FrameBytes
MaxPayloadLen == 3
\* RequestSpec: longest line noise ahead of the echo and the reply
MaxGarbageLen == 3
\* LapSpec: lap length in metres, and the number of laps completed before
\* the updates stop
LapLen == 4
MaxLaps == 2
\* HudSpec: operations on the server over all its runs (fixes, driver
\* changes, session resets, restarts), and the length of the trail it keeps
MaxOps == 5
HistorySize == 1
\* PersistSpec: calls of persist() over all runs
MaxPersists == 2
\* CrashSpec: operations on the spool over all runs
MaxCrashOps == 3
\* ParamsSpec: <parameter> elements of an ecu node
MaxParams == 2
\* EcuSpec: failed passes of the loop (serial initialisations, unhandled errors)
MaxEcuFailures == 3
\* LockSpec: fixes and HTTP requests of a run of the server with its two threads
MaxLockOps == 5
MaxRequests == 1

(***************************************************************************)
(* Program constants.                                                      *)
(***************************************************************************)
\* JsonlSpool.append trims when _append_counter reaches this value
TRIM_EVERY == 100

\* SSM2Client.read_multiple refuses more addresses than this
MAX_ADDRS_PER_READ == 84

\* SSM2Client._build_frame refuses a longer payload
MAX_PAYLOAD_LEN == 255

\* default of --dtc-interval, in seconds
DEFAULT_DTC_INTERVAL == 300

\* default of --max-spool-entries
DEFAULT_MAX_ENTRIES == 10000

\* --backoff-min and --backoff-max of cmd_mqtt, in seconds
BACKOFF_MIN == 1
BACKOFF_MAX == 30

\* mqtt_publish_checked: timeout_sec of a data publish and of a status publish
PUBLISH_TIMEOUT == 5
STATUS_TIMEOUT == 3

\* a lap counts for the best values from this lap time on, in seconds
MIN_VALID_LAP_SEC == 20

\* a fix further than this from the track is discarded, in metres
MAX_TRACK_ERROR_M == 120

\* values of --max-spool-entries the spool is constructed with
MaxEntriesChoices == {1, 2, 3, 100, 101}

VARIABLES
    \* ---- JsonlSpool --------------------------------------------------
    lines,            \* content of the spool file, one element per line
    append_counter,   \* JsonlSpool._append_counter
    max_entries,      \* JsonlSpool.max_entries
    \* ---- observation of the spool operations (SpoolSpec) -------------
    appended,         \* number of append calls so far
    runN,             \* appends since the spool was empty, -1 once disturbed
    lastDrop,         \* <<N, K>> right after drop_first_lines(K), else <<>>
    \* ---- cmd_mqtt ----------------------------------------------------
    pc,               \* position of the telemetry loop
    args,             \* command line: samples, flush_per_loop, dtc_interval
    stats,            \* the stats counters and last_error
    conn_state,       \* conn_state: connected, loop_started
    payload_obj,      \* the sample of the current iteration
    published_now,    \* published_now of the current iteration
    broker,           \* seq of every message the broker received on {base}/data
    \* ---- observation of flush_spool and of the outage scenario --------
    lastFlush,        \* the last flush_spool call: spool before, outcomes, result
    outage,           \* OutageSpec: number of samples the publisher is offline
    \* ---- read_chunked -------------------------------------------------
    rc_args,          \* the call: n addresses, chunk_size, retries, best_effort
    rc,               \* its locals: i, chunk_size, out (keys), and its position pc
    link_K,           \* the serial link: 0 = any read may fail, K = fails from K addresses on
    link_log,         \* what the link saw: successful calls, addresses served, failures
    \* ---- SSM2Client frames --------------------------------------------
    ecu_addr,         \* SSM2Client.ecu_addr
    tx_payload,       \* the payload given to _build_frame
    tx_frame,         \* the frame it built
    rxbuf,            \* the receive buffer given to _parse_frames
    rx_frames,        \* the frames parsed from it
    fr_pc,            \* position: "build", "built", "parsed", "raised", "request", "loop", "returned"
    \* ---- SSM2Client.request -------------------------------------------
    wire,             \* what the serial line delivers after the write: garbage, echo, reply
    rx_pos,           \* number of bytes of it read so far
    req,              \* how request ended: the payload returned or the error raised
    \* ---- LapTiming -----------------------------------------------------
    timing,           \* one LapTiming object
    lap_obs,          \* what its last update returned, and the fixes fed so far
    \* ---- SharedState and DriverRecordsStore ----------------------------
    hud,              \* SharedState: latest, seq, history, timings, active_driver, last_seg_idx
    store,            \* DriverRecordsStore.data, as persisted in the records file
    hud_obs,          \* the last operation on the server and the events it published
    \* ---- files under a crash -------------------------------------------
    disk,             \* a file, the write in progress on it, and what was promised of it
    \* ---- the ECU side of cmd_mqtt --------------------------------------
    ecu_link,         \* serial client, ROM identity, the K-line, and the failure counters
    \* ---- pure functions -----------------------------------------------
    fcall,            \* one call: the function, its arguments and its result
    \* ---- threads of the map server ------------------------------------
    thr               \* the MQTT thread inside SharedState.update, the mutex, the I/O log

spoolVars == <<lines, append_counter, max_entries>>
spoolObs == <<appended, runN, lastDrop>>
loopVars == <<pc, args, stats, conn_state, payload_obj, published_now, broker>>
loopObs == <<lastFlush, outage>>
chunkVars == <<rc_args, rc, link_K, link_log>>
frameVars == <<ecu_addr, tx_payload, tx_frame, rxbuf, rx_frames, fr_pc>>
reqVars == <<wire, rx_pos, req>>
lapVars == <<timing, lap_obs>>
hudVars == <<hud, store, hud_obs>>
gpsVars == <<lapVars, hudVars>>
auxVars == <<disk, ecu_link, fcall, thr>>
protoVars == <<chunkVars, frameVars, reqVars, gpsVars, auxVars>>
vars == <<spoolVars, spoolObs, loopVars, loopObs, chunkVars, frameVars, reqVars, lapVars, hudVars,
          auxVars>>

(***************************************************************************)
(* Lines of the spool file.  json.dumps writes a sample as one line of     *)
(* JSON text; json.loads gives the sample back or raises JSONDecodeError   *)
(* on a line that is not JSON (a line cut short by a crash).               *)
(***************************************************************************)
Dumps(obj) == [text |-> "json", seq |-> obj.seq]

GarbageLine == [text |-> "garbage", seq |-> 0]

\* a line that is empty after strip()
BlankLine == [text |-> "blank", seq |-> 0]

NotBlank(line) == line # BlankLine

JSONDecodeError == [error |-> "JSONDecodeError"]

Loads(line) == IF line.text = "json" THEN [seq |-> line.seq] ELSE JSONDecodeError

Max(a, b) == IF a >= b THEN a ELSE b

Min(a, b) == IF a <= b THEN a ELSE b

\* Python slice s[k:] for k >= 0
SliceFrom(s, k) == IF k >= Len(s) THEN <<>> ELSE SubSeq(s, k + 1, Len(s))

\* Python slice s[-m:] : the last m elements, and the whole of s when m = 0
SliceLast(s, m) == IF m = 0 \/ m >= Len(s) THEN s ELSE SubSeq(s, Len(s) - m + 1, Len(s))

(***************************************************************************)
(* JsonlSpool                                                              *)
(***************************************************************************)
\* a faulty trim: keeps the first max_entries lines
trim_keeps_head(ls, maxEntries) ==
    IF Len(ls) <= maxEntries THEN ls ELSE SubSeq(ls, 1, maxEntries)

\* JsonlSpool.trim: keep the last max_entries lines when there are more
trim(ls, maxEntries) == IF Len(ls) <= maxEntries THEN ls ELSE SliceLast(ls, maxEntries)

\* JsonlSpool.append: write the line, count it, trim on every 100th append
append(sp, obj) ==
    LET written == Append(sp.lines, Dumps(obj))
        counter == sp.append_counter + 1
    IN  IF counter >= TRIM_EVERY
          THEN [lines |-> trim(written, sp.max_entries), append_counter |-> 0,
                max_entries |-> sp.max_entries]
          ELSE [lines |-> written, append_counter |-> counter,
                max_entries |-> sp.max_entries]

\* a faulty peek_lines: stops one line early
peek_lines_short(ls, max_lines) ==
    IF max_lines <= 0 THEN <<>> ELSE SubSeq(ls, 1, Min(max_lines - 1, Len(ls)))

\* JsonlSpool.peek_lines: the first max_lines lines that are not blank, without
\* removing them
peek_lines(ls, max_lines) ==
    IF max_lines <= 0 THEN <<>>
    ELSE SubSeq(SelectSeq(ls, NotBlank), 1, Min(max_lines, Len(SelectSeq(ls, NotBlank))))

\* a faulty drop_first_lines: writes lines[count + 1:]
drop_first_lines_one_more(ls, count) ==
    IF count <= 0 \/ Len(ls) = 0 THEN ls
    ELSE IF count >= Len(ls) THEN <<>>
    ELSE SliceFrom(ls, count + 1)

\* JsonlSpool.drop_first_lines: rewrite the file without its first count lines
drop_first_lines(ls, count) ==
    IF count <= 0 \/ Len(ls) = 0 THEN ls
    ELSE IF count >= Len(ls) THEN <<>>
    ELSE SliceFrom(ls, count)

\* JsonlSpool.depth
depth(ls) == Len(ls)

TheSpool == [lines |-> lines, append_counter |-> append_counter, max_entries |-> max_entries]

(***************************************************************************)
(* Publishing.  mqtt_publish_checked either returns or raises; the result  *)
(* of each call is an input of the model.  publish_payload_and_metrics     *)
(* publishes the sample on {base}/data first and then one message per      *)
(* metric, so it can fail before the broker received the sample            *)
(* ("data_failed") or after it ("metric_failed").                          *)
(***************************************************************************)
PublishOutcomes == {"ok", "data_failed", "metric_failed"}

publish_payload_and_metrics(obj, outcome) ==
    [delivered |-> IF outcome = "data_failed" THEN <<>> ELSE <<obj.seq>>,
     raised |-> outcome # "ok"]

\* the for loop of flush_spool from the j-th peeked line on
RECURSIVE flush_lines(_, _, _, _, _)
flush_lines(peeked, outcomes, j, sent_lines, delivered) ==
    IF j > Len(peeked)
      THEN [sent_lines |-> sent_lines, delivered |-> delivered]
    ELSE IF Loads(peeked[j]) = JSONDecodeError
      THEN flush_lines(peeked, outcomes, j + 1, sent_lines + 1, delivered)
    ELSE LET r == publish_payload_and_metrics(Loads(peeked[j]), outcomes[j])
         IN  IF r.raised
               THEN [sent_lines |-> sent_lines, delivered |-> delivered \o r.delivered]
               ELSE flush_lines(peeked, outcomes, j + 1, sent_lines + 1,
                                delivered \o r.delivered)

\* a faulty flush_spool: drops every peeked line, also after a publish failure
flush_spool_drops_peeked(ls, flush_per_loop, outcomes) ==
    LET peeked == peek_lines(ls, flush_per_loop)
        r == flush_lines(peeked, outcomes, 1, 0, <<>>)
    IN  [lines |-> IF r.sent_lines > 0 THEN drop_first_lines(ls, Len(peeked)) ELSE ls,
         delivered |-> r.delivered,
         sent_lines |-> r.sent_lines,
         raised |-> r.sent_lines < Len(peeked)]

\* flush_spool: outcomes[j] is the result of publishing the j-th peeked line
flush_spool(ls, flush_per_loop, outcomes) ==
    LET peeked == peek_lines(ls, flush_per_loop)
        r == flush_lines(peeked, outcomes, 1, 0, <<>>)
    IN  [lines |-> IF r.sent_lines > 0 THEN drop_first_lines(ls, r.sent_lines) ELSE ls,
         delivered |-> r.delivered,
         sent_lines |-> r.sent_lines,
         raised |-> r.sent_lines < Len(peeked)]

\* the results of one connection attempt of ensure_mqtt_connected
ConnectResults == {"ok", "raise", "timeout"}

\* ensure_mqtt_connected: res is used only when the state is not connected
ensure_mqtt_connected(cs, res) ==
    IF cs.connected THEN [conn_state |-> cs, ret |-> TRUE]
    ELSE IF res = "raise" THEN [conn_state |-> cs, ret |-> FALSE]
    ELSE [conn_state |-> [connected |-> (res = "ok"), loop_started |-> TRUE],
          ret |-> (res = "ok")]

(***************************************************************************)
(* SpoolSpec: a newly constructed JsonlSpool on an empty file, driven by   *)
(* any sequence of append and drop_first_lines calls.                      *)
(***************************************************************************)
NoSample == [seq |-> 0]

NoFlush == [before |-> <<>>, outcomes |-> <<>>, sent_lines |-> -1, raised |-> FALSE,
            delivered |-> <<>>]

LoopIdle ==
    /\ pc = "idle"
    /\ args = [samples |-> 0, flush_per_loop |-> 0, dtc_interval |-> 0]
    /\ stats = [samples_total |-> 0, samples_ok |-> 0, samples_spooled |-> 0,
                last_error |-> ""]
    /\ conn_state = [connected |-> FALSE, loop_started |-> FALSE]
    /\ payload_obj = NoSample
    /\ published_now = FALSE
    /\ broker = <<>>
    /\ lastFlush = NoFlush
    /\ outage = 0

ChunkIdle ==
    /\ rc_args = [n |-> 0, chunk_size |-> 1, retries |-> 0, best_effort |-> FALSE]
    /\ rc = [i |-> 0, chunk_size |-> 1, out |-> {}, pc |-> "idle"]
    /\ link_K = 0
    /\ link_log = [ok_calls |-> 0, served |-> {}, single_fails |-> <<>>]

FrameIdle ==
    /\ ecu_addr = 16
    /\ tx_payload = <<>>
    /\ tx_frame = <<>>
    /\ rxbuf = <<>>
    /\ rx_frames = <<>>
    /\ fr_pc = "idle"

ReqIdle ==
    /\ wire = [garbage |-> <<>>, echo |-> <<>>, reply |-> <<>>]
    /\ rx_pos = 0
    /\ req = [result |-> <<>>, error |-> ""]

DiskIdle == disk = <<>>

EcuIdle == ecu_link = <<>>

CallIdle == fcall = <<>>

ThrIdle == thr = <<>>

AuxIdle == DiskIdle /\ EcuIdle /\ CallIdle /\ ThrIdle

GpsIdle ==
    /\ timing = <<>>
    /\ lap_obs = <<>>
    /\ hud = <<>>
    /\ store = <<>>
    /\ hud_obs = <<>>

SpoolIdle ==
    /\ appended = 0
    /\ runN = 0
    /\ lastDrop = <<>>

SpoolInit ==
    /\ AuxIdle
    /\ ChunkIdle
    /\ FrameIdle
    /\ ReqIdle
    /\ GpsIdle
    /\ LoopIdle
    /\ lines = <<>>
    /\ append_counter = 0
    /\ max_entries \in MaxEntriesChoices
    /\ SpoolIdle

SpoolAppend ==
    /\ UNCHANGED protoVars
    /\ appended < MaxAppends
    /\ LET sp == append(TheSpool, [seq |-> appended + 1])
       IN  /\ lines' = sp.lines
           /\ append_counter' = sp.append_counter
    /\ appended' = appended + 1
    /\ runN' = IF lines = <<>> THEN 1 ELSE IF runN >= 0 THEN runN + 1 ELSE -1
    /\ lastDrop' = <<>>
    /\ UNCHANGED <<max_entries, loopVars, loopObs>>

SpoolDropFirst ==
    /\ UNCHANGED protoVars
    /\ \E count \in 0..MaxDrop :
           /\ lines' = drop_first_lines(lines, count)
           /\ lastDrop' = IF runN >= 0 THEN <<runN, count>> ELSE <<>>
           /\ runN' = IF lines' = <<>> THEN 0 ELSE -1
           /\ UNCHANGED <<append_counter, max_entries, appended>>
    /\ UNCHANGED <<loopVars, loopObs>>

SpoolNext == SpoolAppend \/ SpoolDropFirst

SpoolSpec == SpoolInit /\ [][SpoolNext]_vars

(***************************************************************************)
(* The telemetry loop of cmd_mqtt, one action per stage of an iteration.   *)
(* The serial side is taken to deliver a sample in every iteration.  The   *)
(* results of connection attempts and of publishes are inputs.  Of stats,  *)
(* the sample counters and last_error are kept; the counters that are only *)
(* written (mqtt_failures, dtc_polls_ok, dtc_polls_failed) are left out.   *)
(***************************************************************************)
\* a faulty except branch: counts the sample as spooled without appending it
spool_on_failure_lost(ls) ==
    /\ lines' = ls
    /\ UNCHANGED append_counter
    /\ stats' = [stats EXCEPT !.last_error = "mqtt_publish",
                              !.samples_spooled = @ + 1]

\* the except branch of the publish stage; ls is the spool file at that point
spool_on_failure(ls) ==
    LET sp == append([TheSpool EXCEPT !.lines = ls], payload_obj)
    IN  /\ lines' = sp.lines
        /\ append_counter' = sp.append_counter
        /\ stats' = [stats EXCEPT !.last_error = "mqtt_publish",
                                  !.samples_spooled = @ + 1]

\* while args.samples <= 0 or samples_total < args.samples: read, decode, stamp seq
LoopRead ==
    /\ UNCHANGED protoVars
    /\ pc = "read"
    /\ args.samples <= 0 \/ stats.samples_total < args.samples
    /\ stats' = [stats EXCEPT !.samples_total = @ + 1]
    /\ payload_obj' = [seq |-> stats.samples_total + 1]
    /\ published_now' = FALSE
    /\ pc' = "flush"
    /\ UNCHANGED <<spoolVars, spoolObs, args, conn_state, broker, loopObs>>

\* ensure_mqtt_connected, then flush_spool; the else branch when unavailable
LoopFlush(res, outcomes) ==
    /\ UNCHANGED protoVars
    /\ pc = "flush"
    /\ LET e == ensure_mqtt_connected(conn_state, res)
           f == flush_spool(lines, args.flush_per_loop, outcomes)
       IN  IF ~e.ret
             THEN /\ LET sp == append(TheSpool, payload_obj)
                     IN  /\ lines' = sp.lines
                         /\ append_counter' = sp.append_counter
                  /\ stats' = [stats EXCEPT !.last_error = "mqtt_unavailable",
                                            !.samples_spooled = @ + 1]
                  /\ conn_state' = e.conn_state
                  /\ pc' = "dtc"
                  /\ UNCHANGED <<broker, lastFlush>>
             ELSE /\ broker' = broker \o f.delivered
                  /\ lastFlush' = [before |-> lines, outcomes |-> outcomes,
                                   sent_lines |-> f.sent_lines, raised |-> f.raised,
                                   delivered |-> f.delivered]
                  /\ IF f.raised
                       THEN /\ spool_on_failure(f.lines)
                            /\ conn_state' = [e.conn_state EXCEPT !.connected = FALSE]
                            /\ pc' = "dtc"
                       ELSE /\ lines' = f.lines
                            /\ conn_state' = e.conn_state
                            /\ pc' = "publish"
                            /\ UNCHANGED <<append_counter, stats>>
    /\ UNCHANGED <<max_entries, spoolObs, args, payload_obj, published_now, outage>>

\* publish_payload_and_metrics of the current sample
LoopPublish(outcome) ==
    /\ UNCHANGED protoVars
    /\ pc = "publish"
    /\ LET r == publish_payload_and_metrics(payload_obj, outcome)
       IN  /\ broker' = broker \o r.delivered
           /\ IF r.raised
                THEN /\ spool_on_failure(lines)
                     /\ conn_state' = [conn_state EXCEPT !.connected = FALSE]
                     /\ UNCHANGED published_now
                ELSE /\ published_now' = TRUE
                     /\ stats' = [stats EXCEPT !.samples_ok = @ + 1, !.last_error = ""]
                     /\ UNCHANGED <<lines, append_counter, conn_state>>
    /\ pc' = "dtc"
    /\ UNCHANGED <<max_entries, spoolObs, args, payload_obj, loopObs>>

\* the DTC cadence: poll is "skip" when not due, else the result of the poll
DtcResults == {"skip", "read_failed", "published", "publish_failed"}

LoopDtc(poll, res) ==
    /\ UNCHANGED protoVars
    /\ pc = "dtc"
    /\ poll = "skip" \/ args.dtc_interval > 0
    /\ LET e == ensure_mqtt_connected(conn_state, res)
       IN  CASE poll = "skip" -> UNCHANGED <<stats, conn_state>>
             [] poll = "read_failed" ->
                   /\ stats' = [stats EXCEPT !.last_error = "dtc_poll"]
                   /\ UNCHANGED conn_state
             [] poll = "published" ->
                   /\ conn_state' = e.conn_state
                   /\ IF e.ret THEN UNCHANGED stats
                      ELSE stats' = [stats EXCEPT !.last_error = "mqtt_unavailable_dtc"]
             [] poll = "publish_failed" ->
                   /\ conn_state' = e.conn_state
                   /\ IF e.ret THEN stats' = [stats EXCEPT !.last_error = "dtc_poll"]
                      ELSE stats' = [stats EXCEPT !.last_error = "mqtt_unavailable_dtc"]
    /\ pc' = "status"
    /\ UNCHANGED <<spoolVars, spoolObs, args, payload_obj, published_now, broker, loopObs>>

\* the status cadence: beat is "skip" when not due, else the publish result
StatusResults == {"skip", "published", "publish_failed"}

LoopStatus(beat, res) ==
    /\ UNCHANGED protoVars
    /\ pc = "status"
    /\ LET e == ensure_mqtt_connected(conn_state, res)
       IN  CASE beat = "skip" -> UNCHANGED <<stats, conn_state>>
             [] beat = "published" ->
                   /\ conn_state' = e.conn_state
                   /\ UNCHANGED stats
             [] beat = "publish_failed" ->
                   IF e.ret
                     THEN /\ stats' = [stats EXCEPT !.last_error = "status_publish"]
                          /\ conn_state' = [e.conn_state EXCEPT !.connected = FALSE]
                     ELSE /\ conn_state' = e.conn_state
                          /\ UNCHANGED stats
    /\ pc' = "read"
    /\ UNCHANGED <<spoolVars, spoolObs, args, payload_obj, published_now, broker, loopObs>>

\* the loop condition fails: the finally block stops the client
LoopExit ==
    /\ UNCHANGED protoVars
    /\ pc = "read"
    /\ ~(args.samples <= 0 \/ stats.samples_total < args.samples)
    /\ pc' = "stopped"
    /\ UNCHANGED <<spoolVars, spoolObs, args, stats, conn_state, payload_obj,
                   published_now, broker, loopObs>>

\* _on_connect, called by the client's network thread
MqttOnConnect(reason_code) ==
    /\ UNCHANGED protoVars
    /\ pc \in {"read", "flush", "publish", "dtc", "status"}
    /\ conn_state.loop_started
    /\ conn_state' = [conn_state EXCEPT !.connected = (reason_code = 0)]
    /\ UNCHANGED <<spoolVars, spoolObs, pc, args, stats, payload_obj, published_now,
                   broker, loopObs>>

\* _on_disconnect, called by the client's network thread
MqttOnDisconnect ==
    /\ UNCHANGED protoVars
    /\ pc \in {"read", "flush", "publish", "dtc", "status"}
    /\ conn_state.loop_started
    /\ conn_state' = [conn_state EXCEPT !.connected = FALSE]
    /\ UNCHANGED <<spoolVars, spoolObs, pc, args, stats, payload_obj, published_now,
                   broker, loopObs>>

Init ==
    /\ AuxIdle
    /\ ChunkIdle
    /\ FrameIdle
    /\ ReqIdle
    /\ GpsIdle
    /\ lines = <<>>
    /\ append_counter = 0
    /\ max_entries = DEFAULT_MAX_ENTRIES
    /\ SpoolIdle
    /\ pc = "read"
    /\ args \in [samples : {MaxSamples}, flush_per_loop : 1..MaxFlush, dtc_interval : {0, DEFAULT_DTC_INTERVAL}]
    /\ stats = [samples_total |-> 0, samples_ok |-> 0, samples_spooled |-> 0,
                last_error |-> ""]
    /\ conn_state = [connected |-> FALSE, loop_started |-> FALSE]
    /\ payload_obj = NoSample
    /\ published_now = FALSE
    /\ broker = <<>>
    /\ lastFlush = NoFlush
    /\ outage = 0

Next ==
    \/ LoopRead
    \/ \E res \in ConnectResults, outcomes \in [1..args.flush_per_loop -> PublishOutcomes] :
           LoopFlush(res, outcomes)
    \/ \E outcome \in PublishOutcomes : LoopPublish(outcome)
    \/ \E poll \in DtcResults, res \in ConnectResults : LoopDtc(poll, res)
    \/ \E beat \in StatusResults, res \in ConnectResults : LoopStatus(beat, res)
    \/ LoopExit
    \/ \E reason_code \in {0, 5} : MqttOnConnect(reason_code)
    \/ MqttOnDisconnect

Spec == Init /\ [][Next]_vars

(***************************************************************************)
(* FlushSpec: one call of flush_spool on a spool file left by an earlier   *)
(* process: samples in seq order, some lines damaged.  append writes a     *)
(* non-empty JSON text per line, so the file has no blank line and         *)
(* peek_lines and drop_first_lines count the same lines.                   *)
(***************************************************************************)
SpoolFiles ==
    UNION { { [j \in 1..n |-> IF j \in bad THEN GarbageLine ELSE Dumps([seq |-> j])] :
              bad \in SUBSET (1..n) } : n \in 0..MaxSpoolLen }

FlushInit ==
    /\ AuxIdle
    /\ ChunkIdle
    /\ FrameIdle
    /\ ReqIdle
    /\ GpsIdle
    /\ lines \in SpoolFiles
    /\ append_counter = 0
    /\ max_entries = DEFAULT_MAX_ENTRIES
    /\ SpoolIdle
    /\ pc = "flush_spool"
    /\ args \in [samples : {0}, flush_per_loop : 0..(MaxFlush + 1), dtc_interval : {0}]
    /\ stats = [samples_total |-> 0, samples_ok |-> 0, samples_spooled |-> 0,
                last_error |-> ""]
    /\ conn_state = [connected |-> TRUE, loop_started |-> TRUE]
    /\ payload_obj = NoSample
    /\ published_now = FALSE
    /\ broker = <<>>
    /\ lastFlush = NoFlush
    /\ outage = 0

FlushCall(outcomes) ==
    /\ UNCHANGED protoVars
    /\ pc = "flush_spool"
    /\ LET f == flush_spool(lines, args.flush_per_loop, outcomes)
       IN  /\ lines' = f.lines
           /\ broker' = broker \o f.delivered
           /\ lastFlush' = [before |-> lines, outcomes |-> outcomes,
                            sent_lines |-> f.sent_lines, raised |-> f.raised,
                            delivered |-> f.delivered]
    /\ pc' = "flushed"
    /\ UNCHANGED <<append_counter, max_entries, spoolObs, args, stats, conn_state,
                   payload_obj, published_now, outage>>

FlushNext == \E outcomes \in [1..args.flush_per_loop -> PublishOutcomes] : FlushCall(outcomes)

FlushSpec == FlushInit /\ [][FlushNext]_vars

(***************************************************************************)
(* OutageSpec: the telemetry loop from its start through an outage of      *)
(* `outage` samples, during which no connection attempt succeeds, and one  *)
(* more iteration in which the connection and every publish succeed.       *)
(***************************************************************************)
OutageInit ==
    /\ AuxIdle
    /\ ChunkIdle
    /\ FrameIdle
    /\ ReqIdle
    /\ GpsIdle
    /\ lines = <<>>
    /\ append_counter = 0
    /\ max_entries \in MaxEntriesChoices
    /\ SpoolIdle
    /\ pc = "read"
    /\ outage \in 1..MaxOutage
    /\ args \in [samples : {outage + 1}, flush_per_loop : {outage, outage + 1},
                 dtc_interval : {0}]
    /\ stats = [samples_total |-> 0, samples_ok |-> 0, samples_spooled |-> 0,
                last_error |-> ""]
    /\ conn_state = [connected |-> FALSE, loop_started |-> FALSE]
    /\ payload_obj = NoSample
    /\ published_now = FALSE
    /\ broker = <<>>
    /\ lastFlush = NoFlush

Offline == stats.samples_total <= outage

OutageNext ==
    \/ LoopRead
    \/ \E res \in IF Offline THEN {"raise", "timeout"} ELSE {"ok"} :
           LoopFlush(res, [j \in 1..args.flush_per_loop |-> "ok"])
    \/ LoopPublish("ok")
    \/ LoopDtc("skip", "ok")
    \/ \E beat \in {"skip", "published"} :
           \E res \in IF Offline THEN {"raise", "timeout"} ELSE {"ok"} :
               LoopStatus(beat, res)
    \/ LoopExit

OutageSpec == OutageInit /\ [][OutageNext]_vars

(***************************************************************************)
(* read_chunked.  The addresses are 1..n, address a at position a of the   *)
(* list.  One action is one pass of the while loop; `fails` is the number  *)
(* of attempts of that pass that raised before one returned (R of them     *)
(* when none returned, R = max(1, retries)).                               *)
(***************************************************************************)
Attempts(retries) == Max(1, retries)

CeilDiv(a, b) == (a + b - 1) \div b

\* a faulty pass: a failed chunk of two addresses doubles the chunk size
chunk_pass_regrows(st, n, retries, best_effort, fails) ==
    LET size == Min(st.chunk_size, n - st.i)
        chunk == (st.i + 1)..(st.i + size)
    IN  IF fails < Attempts(retries)
          THEN [st EXCEPT !.out = @ \cup chunk, !.i = @ + size]
        ELSE IF size > 1
          THEN [st EXCEPT !.chunk_size = IF size = 2 THEN 4 ELSE Max(1, size \div 2)]
        ELSE IF best_effort
          THEN [st EXCEPT !.i = @ + 1]
        ELSE [st EXCEPT !.pc = "raised"]

\* a faulty pass: in best-effort mode a failed chunk is skipped whole
chunk_pass_skips_chunk(st, n, retries, best_effort, fails) ==
    LET size == Min(st.chunk_size, n - st.i)
        chunk == (st.i + 1)..(st.i + size)
    IN  IF fails < Attempts(retries)
          THEN [st EXCEPT !.out = @ \cup chunk, !.i = @ + size]
        ELSE IF best_effort
          THEN [st EXCEPT !.i = @ + size]
        ELSE IF size > 1
          THEN [st EXCEPT !.chunk_size = Max(1, size \div 2)]
        ELSE [st EXCEPT !.pc = "raised"]

\* a faulty pass: a failed chunk shrinks by one address instead of halving
chunk_pass_decrements(st, n, retries, best_effort, fails) ==
    LET size == Min(st.chunk_size, n - st.i)
        chunk == (st.i + 1)..(st.i + size)
    IN  IF fails < Attempts(retries)
          THEN [st EXCEPT !.out = @ \cup chunk, !.i = @ + size]
        ELSE IF size > 1
          THEN [st EXCEPT !.chunk_size = Max(1, size - 1)]
        ELSE IF best_effort
          THEN [st EXCEPT !.i = @ + 1]
        ELSE [st EXCEPT !.pc = "raised"]

\* one pass of the while loop of read_chunked
chunk_pass(st, n, retries, best_effort, fails) ==
    LET size == Min(st.chunk_size, n - st.i)
        chunk == (st.i + 1)..(st.i + size)
    IN  IF fails < Attempts(retries)
          THEN [st EXCEPT !.out = @ \cup chunk, !.i = @ + size]
        ELSE IF size > 1
          THEN [st EXCEPT !.chunk_size = Max(1, size \div 2)]
        ELSE IF best_effort
          THEN [st EXCEPT !.i = @ + 1]
        ELSE [st EXCEPT !.pc = "raised"]

\* the numbers of failed attempts the link allows for a chunk of `size` addresses
LinkFails(size, retries) ==
    IF size > MAX_ADDRS_PER_READ THEN {Attempts(retries)}
    ELSE IF link_K = 0 THEN 0..Attempts(retries)
    ELSE IF size >= link_K THEN {Attempts(retries)}
    ELSE {0}

ChunkInit ==
    /\ AuxIdle
    /\ lines = <<>>
    /\ append_counter = 0
    /\ max_entries = DEFAULT_MAX_ENTRIES
    /\ SpoolIdle
    /\ LoopIdle
    /\ FrameIdle
    /\ ReqIdle
    /\ GpsIdle
    /\ \/ /\ link_K = 0
          /\ rc_args \in [n : 0..MaxAddrs, chunk_size : 1..MaxChunk,
                          retries : -1..MaxRetries, best_effort : BOOLEAN]
       \/ /\ link_K \in 2..MaxK
          /\ rc_args \in [n : {StubAddrs}, chunk_size : {StubChunk},
                          retries : {MaxRetries}, best_effort : BOOLEAN]
    /\ rc = [i |-> 0, chunk_size |-> rc_args.chunk_size, out |-> {}, pc |-> "loop"]
    /\ link_log = [passes |-> 0, ok_calls |-> 0, served |-> {},
                   single_fails |-> [a \in 1..rc_args.n |-> 0]]

\* while i < len(addresses): one pass
ReadChunkedPass ==
    /\ rc.pc = "loop"
    /\ rc.i < rc_args.n
    /\ LET size == Min(rc.chunk_size, rc_args.n - rc.i)
           chunk == (rc.i + 1)..(rc.i + size)
       IN  \E fails \in LinkFails(size, rc_args.retries) :
               /\ rc' = chunk_pass(rc, rc_args.n, rc_args.retries, rc_args.best_effort, fails)
               /\ link_log' =
                    [passes |-> link_log.passes + 1,
                     ok_calls |-> link_log.ok_calls
                                    + (IF fails < Attempts(rc_args.retries) THEN 1 ELSE 0),
                     served |-> IF fails < Attempts(rc_args.retries)
                                  THEN link_log.served \cup chunk ELSE link_log.served,
                     single_fails |-> IF size = 1
                                        THEN [link_log.single_fails EXCEPT ![rc.i + 1] = @ + fails]
                                        ELSE link_log.single_fails]
    /\ UNCHANGED <<spoolVars, spoolObs, loopVars, loopObs, rc_args, link_K, frameVars, reqVars, gpsVars,
                   auxVars>>

\* the loop condition fails: return out
ReadChunkedReturn ==
    /\ rc.pc = "loop"
    /\ rc.i >= rc_args.n
    /\ rc' = [rc EXCEPT !.pc = "returned"]
    /\ UNCHANGED <<spoolVars, spoolObs, loopVars, loopObs, rc_args, link_K, link_log, frameVars,
                   reqVars, gpsVars,
                   auxVars>>

ChunkNext == ReadChunkedPass \/ ReadChunkedReturn

ChunkSpec == ChunkInit /\ [][ChunkNext]_vars

\* read_chunked is sequential code: while it has not returned or raised, its
\* next pass is taken (read_multiple returns or raises within the serial
\* timeout)
ChunkLiveSpec == ChunkSpec /\ WF_vars(ChunkNext)

(***************************************************************************)
(* SSM2 frames: 0x80, dst, src, len, payload, checksum.  Bytes are 0..255, *)
(* a bytes object is a sequence of them.                                   *)
(***************************************************************************)
\* sum(data[lo..hi]), by halves
RECURSIVE SumRange(_, _, _)
SumRange(data, lo, hi) ==
    IF lo > hi THEN 0
    ELSE IF lo = hi THEN data[lo]
    ELSE LET mid == (lo + hi) \div 2
         IN  SumRange(data, lo, mid) + SumRange(data, mid + 1, hi)

SumBytes(data) == SumRange(data, 1, Len(data))

\* checksum: the low byte of the sum
checksum(data) == SumBytes(data) % 256

\* Python slice buf[a:b] for 0 <= a <= b <= len(buf)
Slice(buf, a, b) == SubSeq(buf, a + 1, b)

ValueError == <<-1>>

\* SSM2Client._build_frame
build_frame(ecu, payload) ==
    IF Len(payload) > MAX_PAYLOAD_LEN THEN ValueError
    ELSE LET head == <<128, ecu, 240, Len(payload)>>
             msg == head \o payload
         IN  msg \o <<checksum(msg)>>

\* the while loop of a faulty _parse_frames: it wants a byte more than a frame needs
RECURSIVE parse_loop_wants_more(_, _, _)
parse_loop_wants_more(buf, i, frames) ==
    IF ~(i + 5 < Len(buf)) THEN [frames |-> frames, i |-> i]
    ELSE IF buf[i + 1] # 128 THEN parse_loop_wants_more(buf, i + 1, frames)
    ELSE LET payload_len == buf[i + 4]
             end == i + 4 + payload_len + 1
             frame == Slice(buf, i, end)
         IN  IF end > Len(buf) THEN [frames |-> frames, i |-> i]
             ELSE IF checksum(Slice(frame, 0, Len(frame) - 1)) = frame[Len(frame)]
               THEN parse_loop_wants_more(buf, end, Append(frames, frame))
               ELSE parse_loop_wants_more(buf, i + 1, frames)

parse_frames_wants_more(buf) ==
    LET r == parse_loop_wants_more(buf, 0, <<>>)
    IN  [frames |-> r.frames, buf |-> Slice(buf, r.i, Len(buf))]

\* the while loop of _parse_frames from index i on (buf[i] is buf[i + 1] here)
RECURSIVE parse_loop(_, _, _)
parse_loop(buf, i, frames) ==
    IF ~(i + 5 <= Len(buf)) THEN [frames |-> frames, i |-> i]
    ELSE IF buf[i + 1] # 128 THEN parse_loop(buf, i + 1, frames)
    ELSE LET payload_len == buf[i + 4]
             end == i + 4 + payload_len + 1
             frame == Slice(buf, i, end)
         IN  IF end > Len(buf) THEN [frames |-> frames, i |-> i]
             ELSE IF checksum(Slice(frame, 0, Len(frame) - 1)) = frame[Len(frame)]
               THEN parse_loop(buf, end, Append(frames, frame))
               ELSE parse_loop(buf, i + 1, frames)

\* SSM2Client._parse_frames: the frames found and the buffer left
parse_frames(buf) ==
    LET r == parse_loop(buf, 0, <<>>)
    IN  [frames |-> r.frames, buf |-> Slice(buf, r.i, Len(buf))]

\* frame[4:-1], the inner payload request returns
frame_payload(frame) == Slice(frame, 4, Len(frame) - 1)

\* bytes the payloads are made of: zero, a tag, the frame header byte, 0xFF
FrameBytes == {0, 1, 128, 168, 255}

\* every short payload, and payloads of one repeated byte at the length limit
Payloads ==
    UNION { [1..n -> FrameBytes] : n \in 0..MaxPayloadLen }
    \cup { [j \in 1..n |-> b] : n \in {MAX_PAYLOAD_LEN, MAX_PAYLOAD_LEN + 1}, b \in FrameBytes }

FrameInit ==
    /\ AuxIdle
    /\ lines = <<>>
    /\ append_counter = 0
    /\ max_entries = DEFAULT_MAX_ENTRIES
    /\ SpoolIdle
    /\ LoopIdle
    /\ ChunkIdle
    /\ ReqIdle
    /\ GpsIdle
    /\ ecu_addr \in {16, 24}
    /\ tx_payload \in Payloads
    /\ tx_frame = <<>>
    /\ rxbuf = <<>>
    /\ rx_frames = <<>>
    /\ fr_pc = "build"

\* tx = self._build_frame(payload)
FrameBuild ==
    /\ fr_pc = "build"
    /\ LET tx == build_frame(ecu_addr, tx_payload)
       IN  IF tx = ValueError
             THEN /\ fr_pc' = "raised"
                  /\ UNCHANGED tx_frame
             ELSE /\ fr_pc' = "built"
                  /\ tx_frame' = tx
    /\ UNCHANGED <<spoolVars, spoolObs, loopVars, loopObs, chunkVars, reqVars, gpsVars,
                   ecu_addr, tx_payload, rxbuf, rx_frames,
                   auxVars>>

\* rxbuf.extend(frame); _parse_frames(rxbuf)
FrameParse ==
    /\ fr_pc = "built"
    /\ LET r == parse_frames(rxbuf \o tx_frame)
       IN  /\ rx_frames' = r.frames
           /\ rxbuf' = r.buf
    /\ fr_pc' = "parsed"
    /\ UNCHANGED <<spoolVars, spoolObs, loopVars, loopObs, chunkVars, reqVars, gpsVars,
                   ecu_addr, tx_payload, tx_frame,
                   auxVars>>

FrameNext == FrameBuild \/ FrameParse

FrameSpec == FrameInit /\ [][FrameNext]_vars

(***************************************************************************)
(* RequestSpec: SSM2Client.request.  After the request is written the line *)
(* delivers `wire`: line noise, then the local echo of the request, then   *)
(* the frame the ECU answers with.  Each pass of the while loop reads the  *)
(* bytes that have arrived (any number of the pending ones, none when the  *)
(* read times out) and hands the buffer to _parse_frames.  The monotonic   *)
(* deadline may pass before any pass.                                      *)
(***************************************************************************)
\* a frame in the direction ECU -> tester: 0x80, 0xF0, ecu, len, payload, checksum
EcuFrame(ecu, payload) ==
    LET msg == <<128, 240, ecu, Len(payload)>> \o payload
    IN  msg \o <<checksum(msg)>>

\* the same frame with its checksum byte damaged on the line
DamagedFrame(frame) ==
    [frame EXCEPT ![Len(frame)] = (@ + 1) % 256]

\* if frame[1] == self.ecu_addr and frame[2] == 0xF0: the FTDI echo
is_echo(frame, ecu) == frame[2] = ecu /\ frame[3] = 240

\* if frame[1] == 0xF0 and frame[2] == self.ecu_addr: the reply
is_reply(frame, ecu) == frame[2] = 240 /\ frame[3] = ecu

\* the for loop over the parsed frames: the first frame that is not the echo
\* and is a reply, <<>> when there is none
first_reply(frames, ecu) ==
    LET hits == {j \in 1..Len(frames) : ~is_echo(frames[j], ecu) /\ is_reply(frames[j], ecu)}
    IN  IF hits = {} THEN <<>>
        ELSE frames[CHOOSE j \in hits : \A m \in hits : j <= m]

Line == wire.garbage \o wire.echo \o wire.reply

\* bytes of the line noise: zero, a short length, the header byte, 0xFF
GarbageBytes == {0, 1, 128, 255}

Garbage == UNION { [1..n -> GarbageBytes] : n \in 0..MaxGarbageLen }

\* requests sent: get_cu_data (0xBF) and a one-address read_multiple (0xA8)
RequestPayloads == {<<191>>, <<168, 0, 0, 0, 8>>}

\* replies of the ECU: the read_multiple answer 0xE8 with one value, or 0xFF
ReplyPayloads == {<<232, 128>>, <<255>>}

RequestInit ==
    /\ AuxIdle
    /\ lines = <<>>
    /\ append_counter = 0
    /\ max_entries = DEFAULT_MAX_ENTRIES
    /\ SpoolIdle
    /\ LoopIdle
    /\ ChunkIdle
    /\ GpsIdle
    /\ ecu_addr = 16
    /\ tx_payload \in RequestPayloads
    /\ tx_frame = <<>>
    /\ rxbuf = <<>>
    /\ rx_frames = <<>>
    /\ fr_pc = "request"
    /\ wire \in [garbage : Garbage,
                 echo : {<<>>, build_frame(ecu_addr, tx_payload)},
                 reply : {<<>>} \cup { EcuFrame(ecu_addr, p) : p \in ReplyPayloads }
                               \cup { DamagedFrame(EcuFrame(ecu_addr, p)) : p \in ReplyPayloads }]
    /\ rx_pos = 0
    /\ req = [result |-> <<>>, error |-> ""]

\* tx = self._build_frame(payload); reset the buffers; write; rxbuf = bytearray()
RequestSend ==
    /\ fr_pc = "request"
    /\ LET tx == build_frame(ecu_addr, tx_payload)
       IN  IF tx = ValueError
             THEN /\ fr_pc' = "raised"
                  /\ req' = [result |-> <<>>, error |-> "ValueError"]
                  /\ UNCHANGED tx_frame
             ELSE /\ fr_pc' = "loop"
                  /\ tx_frame' = tx
                  /\ UNCHANGED req
    /\ rxbuf' = <<>>
    /\ UNCHANGED <<spoolVars, spoolObs, loopVars, loopObs, chunkVars, gpsVars,
                   ecu_addr, tx_payload, rx_frames, wire, rx_pos,
                   auxVars>>

\* one pass of the while loop: chunk = self.ser.read(self.ser.in_waiting or 1)
RequestRead(n) ==
    /\ fr_pc = "loop"
    /\ n \in 0..(Len(Line) - rx_pos)
    /\ LET chunk == SubSeq(Line, rx_pos + 1, rx_pos + n)
           r == parse_frames(rxbuf \o chunk)
           hit == first_reply(r.frames, ecu_addr)
       IN  IF chunk = <<>>
             THEN UNCHANGED <<rxbuf, rx_frames, fr_pc, req>>
             ELSE /\ rxbuf' = r.buf
                  /\ rx_frames' = rx_frames \o r.frames
                  /\ IF hit = <<>>
                       THEN UNCHANGED <<fr_pc, req>>
                       ELSE /\ fr_pc' = "returned"
                            /\ req' = [result |-> frame_payload(hit), error |-> ""]
    /\ rx_pos' = rx_pos + n
    /\ UNCHANGED <<spoolVars, spoolObs, loopVars, loopObs, chunkVars, gpsVars,
                   ecu_addr, tx_payload, tx_frame, wire,
                   auxVars>>

\* time.monotonic() < deadline fails: raise TimeoutError
RequestDeadline ==
    /\ fr_pc = "loop"
    /\ fr_pc' = "raised"
    /\ req' = [result |-> <<>>, error |-> "TimeoutError"]
    /\ UNCHANGED <<spoolVars, spoolObs, loopVars, loopObs, chunkVars, gpsVars,
                   ecu_addr, tx_payload, tx_frame, rxbuf, rx_frames, wire, rx_pos,
                   auxVars>>

RequestNext ==
    \/ RequestSend
    \/ \E n \in 0..Len(Line) : RequestRead(n)
    \/ RequestDeadline

RequestSpec == RequestInit /\ [][RequestNext]_vars

(***************************************************************************)
(* LapTiming (src/gps/mqtt_gps_map_server_latest.py).  Times are seconds   *)
(* and arclengths metres, both whole numbers here; an Optional[float] is   *)
(* None or Some(v).  The comparisons of the code against lap_len_m * 0.5,  *)
(* lap_len_m * 0.12 and lap_len_m / 3.0 are made exactly by multiplying    *)
(* through.                                                                *)
(***************************************************************************)
None == <<>>

Some(v) == <<v>>

None3 == <<None, None, None>>

\* LapTiming.__init__
LapTiming(lap_len) ==
    [lap_len_m |-> lap_len,
     lap_count |-> 0,
     armed |-> FALSE,
     lap_start_ts |-> 0,
     lap_progress_m |-> 0,
     current_splits |-> None3,
     last_splits |-> None3,
     best_splits |-> None3,
     best_split_segments |-> None3,
     last_lap |-> None,
     best_lap |-> None,
     prev_s |-> None]

\* lap_progress_m >= split_dist[i], split_dist = [L/3, 2L/3, L], i = 1..3
reached_split(t, progress, i) == 3 * progress >= i * t.lap_len_m

\* a faulty wrap: the correction by the lap length is missing
wrap_ds_missing(t, raw) == raw

\* ds corrected by the lap length when the car went over the start line
wrap_ds(t, raw) ==
    IF 2 * raw < -t.lap_len_m THEN raw + t.lap_len_m
    ELSE IF 2 * raw > t.lap_len_m THEN raw - t.lap_len_m
    ELSE raw

\* a faulty arming test: any forward motion arms
arms_anywhere(t, ds, s_m) == ds > 0

\* if ds > 0 and (s_m < self.lap_len_m * 0.12)
arms(t, ds, s_m) == ds > 0 /\ 100 * s_m < 12 * t.lap_len_m

\* a faulty capture: one split per update, the first that is due
capture_splits_one(t, progress, elapsed) ==
    [i \in 1..3 |->
        IF t.current_splits[i] = None /\ reached_split(t, progress, i)
           /\ \A j \in 1..(i - 1) : t.current_splits[j] # None
          THEN Some(elapsed) ELSE t.current_splits[i]]

\* a faulty capture: the split at the lap length is left to the next update
capture_splits_late(t, progress, elapsed) ==
    [i \in 1..3 |->
        IF t.current_splits[i] = None /\ reached_split(t, progress, i) /\ i < 3
          THEN Some(elapsed) ELSE t.current_splits[i]]

\* for i in range(3): capture the splits reached and not yet captured
capture_splits(t, progress, elapsed) ==
    [i \in 1..3 |->
        IF t.current_splits[i] = None /\ reached_split(t, progress, i)
          THEN Some(elapsed) ELSE t.current_splits[i]]

\* LapTiming._split_segments
split_segments(cumulative_splits) ==
    LET s1 == cumulative_splits[1]
        s2 == cumulative_splits[2]
        s3 == cumulative_splits[3]
    IN  <<s1,
          IF s1 # None /\ s2 # None THEN Some(s2[1] - s1[1]) ELSE None,
          IF s2 # None /\ s3 # None THEN Some(s3[1] - s2[1]) ELSE None>>

\* the smaller of an optional best value and a new value
better(best, v) == IF best = None \/ v < best[1] THEN Some(v) ELSE best

\* a faulty validity test: every completed lap counts for the best values
is_valid_lap_always(lap_time) == TRUE

\* is_valid_lap = lap_time >= MIN_VALID_LAP_SEC
is_valid_lap(lap_time) == lap_time >= MIN_VALID_LAP_SEC

\* a faulty rollover: the progress beyond the lap length is not taken off
rollover_keeps(t, progress) == progress

\* self.lap_progress_m = max(self.lap_progress_m - self.lap_len_m, 0.0)
rollover(t, progress) == Max(progress - t.lap_len_m, 0)

\* the body of `if self.lap_progress_m >= self.lap_len_m`
complete_lap(t, ts_sec, progress, elapsed, splits) ==
    LET lap_time == elapsed
        valid == is_valid_lap(lap_time)
        segments == split_segments(splits)
        done ==
          [t EXCEPT
             !.last_lap = Some(lap_time),
             !.best_lap = IF valid THEN better(@, lap_time) ELSE @,
             !.lap_count = @ + 1,
             !.last_splits = splits,
             !.best_splits =
                IF valid
                  THEN [i \in 1..3 |-> IF splits[i] = None THEN @[i]
                                       ELSE better(@[i], splits[i][1])]
                  ELSE @,
             !.best_split_segments =
                IF valid
                  THEN [i \in 1..3 |-> IF splits[i] = None \/ segments[i] = None THEN @[i]
                                       ELSE better(@[i], segments[i][1])]
                  ELSE @,
             !.lap_start_ts = ts_sec,
             !.lap_progress_m = rollover(t, progress),
             !.current_splits = None3]
    IN  [timing |-> done,
         completed_lap |-> Some([lap_number |-> done.lap_count,
                                 lap_time_sec |-> lap_time,
                                 splits_sec |-> splits,
                                 completed_at_sec |-> ts_sec])]

\* a faulty progression: a forward step counts twice
advance_twice(progress, ds) == progress + 2 * Max(ds, 0)

\* self.lap_progress_m += max(ds, 0.0)
advance(progress, ds) == progress + Max(ds, 0)

\* LapTiming.update: the timing after the call and the completed_lap returned
lap_update(t, ts_sec, s_m) ==
    IF t.prev_s = None
      THEN [timing |-> [t EXCEPT !.prev_s = Some(s_m)], completed_lap |-> None]
    ELSE LET ds == wrap_ds(t, s_m - t.prev_s[1])
             t1 == [t EXCEPT !.prev_s = Some(s_m)]
             progress == advance(t.lap_progress_m, ds)
             elapsed == ts_sec - t.lap_start_ts
             splits == capture_splits(t, progress, elapsed)
         IN  IF ~t.armed
               THEN [timing |-> IF arms(t, ds, s_m)
                                  THEN [t1 EXCEPT !.armed = TRUE,
                                                  !.lap_start_ts = ts_sec,
                                                  !.lap_progress_m = 0,
                                                  !.current_splits = None3]
                                  ELSE t1,
                     completed_lap |-> None]
             ELSE IF progress >= t.lap_len_m
               THEN complete_lap(t1, ts_sec, progress, elapsed, splits)
             ELSE [timing |-> [t1 EXCEPT !.lap_progress_m = progress,
                                         !.current_splits = splits],
                   completed_lap |-> None]

\* LapTiming.snapshot
snapshot(t, ts_sec) ==
    LET current_lap == IF t.armed /\ t.lap_start_ts > 0
                         THEN Some(Max(ts_sec - t.lap_start_ts, 0)) ELSE None
        current_split_idx ==
            IF ~t.armed THEN 0
            ELSE IF ~reached_split(t, t.lap_progress_m, 1) THEN 1
            ELSE IF ~reached_split(t, t.lap_progress_m, 2) THEN 2
            ELSE 3
        current_segment ==
            IF current_lap = None \/ current_split_idx = 0 THEN None
            ELSE IF current_split_idx = 1 THEN current_lap
            ELSE IF t.current_splits[current_split_idx - 1] = None THEN None
            ELSE Some(current_lap[1] - t.current_splits[current_split_idx - 1][1])
        best_segment == IF current_split_idx = 0 THEN None
                        ELSE t.best_split_segments[current_split_idx]
    IN  [lap_count |-> t.lap_count,
         current_lap_sec |-> current_lap,
         last_lap_sec |-> t.last_lap,
         best_lap_sec |-> t.best_lap,
         current_splits_sec |-> t.current_splits,
         last_splits_sec |-> t.last_splits,
         best_splits_sec |-> t.best_splits,
         best_split_segments_sec |-> t.best_split_segments,
         current_split_idx |-> current_split_idx,
         split_delta_sec |-> IF current_segment # None /\ best_segment # None
                               THEN Some(current_segment[1] - best_segment[1]) ELSE None,
         lap_progress_m |-> IF t.armed THEN Some(t.lap_progress_m) ELSE None]

(***************************************************************************)
(* LapSpec: one LapTiming object, newly constructed, driven by any         *)
(* sequence of update(ts_sec, s_m) calls with s_m on the track.  The       *)
(* timestamps are those of the GPS payloads and come in any order.  On the *)
(* track of WrapScenario the fixes are those of the scenario in their      *)
(* order, or the fixes up to some point and then any one of them.          *)
(***************************************************************************)
\* the lap wrap scenario: lap length, and the fixes as <<ts_sec, s_m>>
WrapScenario ==
    [lap_len |-> 3000,
     fixes |-> << <<0, 100>>, <<20, 1100>>, <<40, 2100>>, <<58, 2950>>, <<62, 50>> >>]

\* timestamps of the fixes, in seconds: a lap can take 10, 20 or 30 seconds
Timestamps == {10, 30, 40}

\* the fixes fed to a LapTiming of lap length L
Fixes(L) ==
    IF L = WrapScenario.lap_len
      THEN { WrapScenario.fixes[j] : j \in 1..Len(WrapScenario.fixes) }
      ELSE Timestamps \X (0..L)

LapInit ==
    /\ AuxIdle
    /\ lines = <<>>
    /\ append_counter = 0
    /\ max_entries = DEFAULT_MAX_ENTRIES
    /\ SpoolIdle
    /\ LoopIdle
    /\ ChunkIdle
    /\ FrameIdle
    /\ ReqIdle
    /\ hud = <<>>
    /\ store = <<>>
    /\ hud_obs = <<>>
    /\ timing \in { LapTiming(L) : L \in {LapLen, WrapScenario.lap_len} }
    /\ lap_obs = [ts_sec |-> 0, ret |-> None, scen |-> 0, laps |-> <<>>]

\* timing.update(ts_sec, s_m)
LapUpdate(ts_sec, s_m) ==
    /\ timing.lap_count < MaxLaps
    /\ timing.lap_len_m = WrapScenario.lap_len => lap_obs.scen >= 0
    /\ LET r == lap_update(timing, ts_sec, s_m)
           on_script == /\ lap_obs.scen >= 0
                        /\ lap_obs.scen < Len(WrapScenario.fixes)
                        /\ timing.lap_len_m = WrapScenario.lap_len
                        /\ <<ts_sec, s_m>> = WrapScenario.fixes[lap_obs.scen + 1]
       IN  /\ timing' = r.timing
           /\ lap_obs' = [ts_sec |-> ts_sec,
                          ret |-> r.completed_lap,
                          scen |-> IF on_script THEN lap_obs.scen + 1 ELSE -1,
                          laps |-> IF on_script THEN lap_obs.laps \o r.completed_lap
                                   ELSE <<>>]
    /\ UNCHANGED <<spoolVars, spoolObs, loopVars, loopObs, chunkVars, frameVars, reqVars,
                   hudVars,
                   auxVars>>

\* return self.snapshot(ts_sec), completed_lap: the snapshot the last update returned
LapSnapshot == snapshot(timing, lap_obs.ts_sec)

LapNext == \E fix \in Fixes(timing.lap_len_m) : LapUpdate(fix[1], fix[2])

LapSpec == LapInit /\ [][LapNext]_vars

(***************************************************************************)
(* JitterSpec: one LapTiming object under fixes that move forward and      *)
(* backward along the track.  lap_obs.net is the arclength the car has     *)
(* net-advanced since the lap started (the steps ds, backward ones counted *)
(* negative) plus the progress carried over from the lap before, and       *)
(* lap_obs.back whether a step of the lap went backward.  Within a lap the *)
(* car does not reverse by more than a lap length.  The track is LapLen or *)
(* twice LapLen metres long, with a fix at every metre.                    *)
(***************************************************************************)
JitterInit ==
    /\ AuxIdle
    /\ lines = <<>>
    /\ append_counter = 0
    /\ max_entries = DEFAULT_MAX_ENTRIES
    /\ SpoolIdle
    /\ LoopIdle
    /\ ChunkIdle
    /\ FrameIdle
    /\ ReqIdle
    /\ hud = <<>>
    /\ store = <<>>
    /\ hud_obs = <<>>
    /\ timing \in {LapTiming(LapLen), LapTiming(2 * LapLen)}
    /\ lap_obs = [ts_sec |-> 0, ret |-> None, net |-> 0, back |-> FALSE]

\* timing.update(ts_sec, s_m)
JitterUpdate(ts_sec, s_m) ==
    /\ timing.lap_count < MaxLaps
    /\ LET r == lap_update(timing, ts_sec, s_m)
           ds == IF timing.prev_s = None THEN 0
                 ELSE wrap_ds(timing, s_m - timing.prev_s[1])
           lap_began == ~timing.armed \/ r.completed_lap # None
       IN  /\ lap_began \/ lap_obs.net + ds >= -timing.lap_len_m
           /\ timing' = r.timing
           /\ lap_obs' = [ts_sec |-> ts_sec,
                          ret |-> r.completed_lap,
                          net |-> IF lap_began THEN r.timing.lap_progress_m
                                  ELSE lap_obs.net + ds,
                          back |-> ~lap_began /\ (lap_obs.back \/ ds < 0)]
    /\ UNCHANGED <<spoolVars, spoolObs, loopVars, loopObs, chunkVars, frameVars, reqVars,
                   hudVars,
                   auxVars>>

JitterNext ==
    \E ts_sec \in {lap_obs.ts_sec, lap_obs.ts_sec + 10, lap_obs.ts_sec + 20} \cap {10, 30},
       s_m \in 0..timing.lap_len_m :
        JitterUpdate(ts_sec, s_m)

JitterSpec == JitterInit /\ [][JitterNext]_vars

(***************************************************************************)
(* DriverRecordsStore.  data["drivers"][d] is a record with the driver's   *)
(* current_session_id and the sessions, session k being the sequence of    *)
(* lap rows sessions[k].  persist() writes the whole document at every     *)
(* add_lap and reset_session, and json keeps numbers, null and lists as    *)
(* they are, so the records file holds the same document as `store`.       *)
(***************************************************************************)
\* the drivers of the model: DRIVER_NAMES[0] and DRIVER_NAMES[1]
Drivers == {"Beerens", "Frenchy"}

FirstDriver == "Beerens"

\* DriverRecordsStore._empty_driver
empty_driver == [current_session_id |-> 1, sessions |-> << <<>> >>]

\* DriverRecordsStore._load when there is no records file
empty_store == [d \in Drivers |-> empty_driver]

\* DriverRecordsStore.current_session_id
current_session_id(st, d) == st[d].current_session_id

\* DriverRecordsStore.add_lap: append to the current session, persist
add_lap(st, d, lap) ==
    [st EXCEPT ![d].sessions[current_session_id(st, d)] = Append(@, lap)]

\* a faulty reset_session: the current session is emptied and keeps its id
reset_session_same_id(st, d) ==
    [st EXCEPT ![d].sessions[current_session_id(st, d)] = <<>>]

\* DriverRecordsStore.reset_session: a new empty session under the next id, persist
reset_session(st, d) ==
    [st EXCEPT ![d].current_session_id = @ + 1,
               ![d].sessions = Append(@, <<>>)]

\* the places <<session, index>> of the lap rows of a driver, in file order
RowKeys(st, d) ==
    UNION { { <<k, j>> : j \in 1..Len(st[d].sessions[k]) } :
                k \in 1..Len(st[d].sessions) }

RowAt(st, d, kj) == st[d].sessions[kj[1]][kj[2]]

\* the smallest element of a set of numbers, None when it is empty
MinOpt(S) == IF S = {} THEN None ELSE Some(CHOOSE x \in S : \A y \in S : x <= y)

\* isinstance(val, (int, float)) and val > 0, else None, for the three splits
safe_splits(splits) ==
    [i \in 1..3 |-> IF splits[i] # None /\ splits[i][1] > 0 THEN splits[i] ELSE None]

\* DriverRecordsStore.driver_benchmarks
driver_benchmarks(st, d) ==
    LET valid == { kj \in RowKeys(st, d) :
                      RowAt(st, d, kj).lap_time_sec >= MIN_VALID_LAP_SEC }
        safe(kj) == safe_splits(RowAt(st, d, kj).splits_sec)
        segs(kj) == split_segments(safe(kj))
    IN  [best_lap_sec |-> MinOpt({ RowAt(st, d, kj).lap_time_sec : kj \in valid }),
         best_splits_sec |->
            [i \in 1..3 |-> MinOpt({ safe(kj)[i][1] : kj \in { x \in valid : safe(x)[i] # None } })],
         best_split_segments_sec |->
            [i \in 1..3 |-> MinOpt({ segs(kj)[i][1] : kj \in { x \in valid : segs(x)[i] # None } })]]

\* the row driver_recent falls back to: the first row, in file order, with the
\* greatest completed_at_sec
latest_by_completed_at(st, d) ==
    LET keys == RowKeys(st, d)
        top == { kj \in keys : \A x \in keys :
                    RowAt(st, d, x).completed_at_sec <= RowAt(st, d, kj).completed_at_sec }
    IN  IF keys = {} THEN None
        ELSE Some(RowAt(st, d, CHOOSE kj \in top : \A x \in top :
                                  kj[1] < x[1] \/ (kj[1] = x[1] /\ kj[2] <= x[2])))

\* DriverRecordsStore.driver_recent
driver_recent(st, d) ==
    LET current == st[d].sessions[current_session_id(st, d)]
        lap_count == Len(current)
        latest_lap == IF lap_count > 0 THEN Some(current[lap_count])
                      ELSE latest_by_completed_at(st, d)
    IN  IF latest_lap = None
          THEN [last_lap_sec |-> None, last_splits_sec |-> None3, lap_count |-> lap_count]
          ELSE [last_lap_sec |-> IF latest_lap[1].lap_time_sec > 0
                                   THEN Some(latest_lap[1].lap_time_sec) ELSE None,
                last_splits_sec |-> safe_splits(latest_lap[1].splits_sec),
                lap_count |-> lap_count]

\* LapTiming.apply_benchmarks
apply_benchmarks(t, best_lap, best_splits, best_segments) ==
    [t EXCEPT !.best_lap = IF best_lap # None /\ best_lap[1] >= MIN_VALID_LAP_SEC
                             THEN best_lap ELSE None,
              !.best_splits = best_splits,
              !.best_split_segments = best_segments]

\* a faulty apply_recent: the lap count of the session is not restored
apply_recent_no_count(t, last_lap, last_splits, lap_count) ==
    [t EXCEPT !.last_lap = IF last_lap # None /\ last_lap[1] > 0 THEN last_lap ELSE @,
              !.last_splits = safe_splits(last_splits)]

\* LapTiming.apply_recent
apply_recent(t, last_lap, last_splits, lap_count) ==
    [t EXCEPT !.last_lap = IF last_lap # None /\ last_lap[1] > 0 THEN last_lap ELSE @,
              !.last_splits = safe_splits(last_splits),
              !.lap_count = Max(lap_count, 0)]

\* SharedState._new_timing_for_driver
new_timing_for_driver(st, d) ==
    LET bench == driver_benchmarks(st, d)
        recent == driver_recent(st, d)
    IN  apply_recent(
            apply_benchmarks(LapTiming(LapLen), bench.best_lap_sec, bench.best_splits_sec,
                             bench.best_split_segments_sec),
            recent.last_lap_sec, recent.last_splits_sec, recent.lap_count)

(***************************************************************************)
(* SharedState.  The projection of a fix on the track is an input: the     *)
(* arclength s_m, the segment it lies on and the distance err_m from the   *)
(* track.  The track has segments of one metre.                            *)
(***************************************************************************)
\* SharedState.__init__ on the records document st
SharedState(st) ==
    [latest |-> None,
     seq |-> 0,
     history |-> <<>>,
     active_driver |-> FirstDriver,
     timings |-> [d \in Drivers |-> new_timing_for_driver(st, d)],
     last_seg_idx |-> 0,
     timing_snapshot |-> None]

\* the segment index TrackGeometry.project returns with the arclength s_m
seg_of(s_m) == Min(s_m, LapLen - 1)

\* a faulty outlier test: no fix is rejected
is_outlier_never(err_m) == FALSE

\* if err_m > MAX_TRACK_ERROR_M: return
is_outlier(err_m) == err_m > MAX_TRACK_ERROR_M

\* the split events of an update: the splits that were None before and are not now
split_events(driver, session_id, prev_splits, t) ==
    LET crossed == { i \in 1..3 : prev_splits[i] = None /\ t.current_splits[i] # None }
        seg_time(i) == IF i = 1 THEN t.current_splits[1]
                       ELSE IF t.current_splits[i - 1] = None THEN None
                       ELSE Some(t.current_splits[i][1] - t.current_splits[i - 1][1])
    IN  { [event |-> "split", driver |-> driver, session_id |-> session_id,
           lap_number |-> t.lap_count + 1, split_index |-> i,
           split_cumulative_sec |-> t.current_splits[i],
           split_segment_sec |-> seg_time(i)] : i \in crossed }

\* self.history.append(...) on a deque(maxlen=history_size)
history_append(h, x) ==
    IF Len(h) < HistorySize THEN Append(h, x) ELSE Append(Tail(h), x)

\* the timestamps of the fixes
HudTimestamps == {10, 30}

\* the readings of time.time() when a driver is selected or a session reset
WallClock == {40}

\* the distances from the track a projection reports: on the limit and just past it
TrackErrors == {MAX_TRACK_ERROR_M, MAX_TRACK_ERROR_M + 1}

\* what the last operation on the server was, what it published and returned
HudObs(op, err_m, splits, lap) ==
    [op |-> op, err_m |-> err_m, split_events |-> splits, lap_event |-> lap,
     ret |-> None,
     ops |-> IF op = "init" THEN 0 ELSE hud_obs.ops + 1]

HudInit ==
    /\ AuxIdle
    /\ lines = <<>>
    /\ append_counter = 0
    /\ max_entries = DEFAULT_MAX_ENTRIES
    /\ SpoolIdle
    /\ LoopIdle
    /\ ChunkIdle
    /\ FrameIdle
    /\ ReqIdle
    /\ timing = <<>>
    /\ lap_obs = <<>>
    /\ store = empty_store
    /\ hud = SharedState(empty_store)
    /\ hud_obs = HudObs("init", 0, {}, None)

\* SharedState.update for a fix whose projection is (s_m, seg_of(s_m), err_m)
HudUpdate(ts_sec, s_m, err_m) ==
    /\ hud_obs.ops < MaxOps
    /\ LET driver == hud.active_driver
           session_id == current_session_id(store, driver)
           timing_state == hud.timings[driver]
           upd == lap_update(timing_state, ts_sec, s_m)
           after == upd.timing
           lap_entry == IF upd.completed_lap = None THEN None
                        ELSE Some([lap_number |-> upd.completed_lap[1].lap_number,
                                   lap_time_sec |-> upd.completed_lap[1].lap_time_sec,
                                   splits_sec |-> upd.completed_lap[1].splits_sec,
                                   completed_at_sec |-> upd.completed_lap[1].completed_at_sec,
                                   driver |-> driver,
                                   session_id |-> session_id])
           row == [ts_sec |-> ts_sec, track_s_m |-> s_m,
                   lap_distance_m |-> IF after.armed THEN Some(after.lap_progress_m) ELSE None,
                   track_error_m |-> err_m, driver |-> driver]
       IN  IF is_outlier(err_m)
             THEN /\ hud' = [hud EXCEPT !.last_seg_idx = seg_of(s_m)]
                  /\ store' = store
                  /\ hud_obs' = HudObs("update", err_m, {}, None)
             ELSE /\ hud' = [hud EXCEPT !.last_seg_idx = seg_of(s_m),
                                        !.timings[driver] = after,
                                        !.latest = Some(row),
                                        !.seq = @ + 1,
                                        !.history = history_append(@, s_m),
                                        !.timing_snapshot = Some(snapshot(after, ts_sec))]
                  /\ store' = IF lap_entry = None THEN store
                              ELSE add_lap(store, driver, lap_entry[1])
                  /\ hud_obs' = HudObs("update", err_m,
                                       split_events(driver, session_id,
                                                    timing_state.current_splits, after),
                                       lap_entry)
    /\ UNCHANGED <<spoolVars, spoolObs, loopVars, loopObs, chunkVars, frameVars, reqVars, lapVars,
                   auxVars>>

\* SharedState.set_driver for one of the drivers, the wall clock reading now
HudSetDriver(driver, now) ==
    /\ hud_obs.ops < MaxOps
    /\ hud' = [hud EXCEPT !.active_driver = driver,
                          !.timing_snapshot = Some(snapshot(hud.timings[driver], now))]
    /\ hud_obs' = HudObs("set_driver", 0, {}, None)
    /\ UNCHANGED <<store, spoolVars, spoolObs, loopVars, loopObs, chunkVars, frameVars, reqVars,
                   lapVars,
                   auxVars>>

\* SharedState.reset_active_driver_session, the wall clock reading now
HudResetSession(now) ==
    /\ hud_obs.ops < MaxOps
    /\ LET driver == hud.active_driver
           st == reset_session(store, driver)
           fresh == new_timing_for_driver(st, driver)
       IN  /\ store' = st
           /\ hud' = [hud EXCEPT !.timings[driver] = fresh,
                                 !.timing_snapshot = Some(snapshot(fresh, now))]
    /\ hud_obs' = [HudObs("reset", 0, {}, None) EXCEPT
                      !.ret = Some([driver |-> hud.active_driver,
                                    session_id |-> current_session_id(store', hud.active_driver)])]
    /\ UNCHANGED <<spoolVars, spoolObs, loopVars, loopObs, chunkVars, frameVars, reqVars, lapVars,
                   auxVars>>

\* the server stops and main() builds a new SharedState on the same records file
HudRestart ==
    /\ hud_obs.ops < MaxOps
    /\ hud' = SharedState(store)
    /\ hud_obs' = HudObs("restart", 0, {}, None)
    /\ UNCHANGED <<store, spoolVars, spoolObs, loopVars, loopObs, chunkVars, frameVars, reqVars,
                   lapVars,
                   auxVars>>

HudNext ==
    \/ \E ts_sec \in HudTimestamps, s_m \in 0..LapLen, err_m \in TrackErrors :
          HudUpdate(ts_sec, s_m, err_m)
    \/ \E driver \in Drivers, now \in WallClock : HudSetDriver(driver, now)
    \/ \E now \in WallClock : HudResetSession(now)
    \/ HudRestart

HudSpec == HudInit /\ [][HudNext]_vars


(***************************************************************************)
(* DriverRecordsStore.persist under a crash.  persist() is                 *)
(* path.write_text(json.dumps(data)): the file is opened for writing,      *)
(* which creates or empties it, the text reaches it in pieces, and it is   *)
(* closed.  The text is a sequence of tokens: the opening brace, one       *)
(* member per driver in sorted order, the closing brace.  The process can  *)
(* stop at every point; the next run loads whatever the file holds.        *)
(***************************************************************************)
\* the keys of "drivers" in the order sort_keys=True writes them
SortedDrivers == <<"Beerens", "Frenchy">>

\* json.dumps(self.data, indent=2, sort_keys=True)
json_dumps(st) ==
    << <<"{">> >> \o [i \in 1..Len(SortedDrivers) |-> <<SortedDrivers[i], st[SortedDrivers[i]]>>]
                 \o << <<"}">> >>

\* json.loads(text): the document, or None where it raises JSONDecodeError
json_loads(text) ==
    IF /\ Len(text) = Len(SortedDrivers) + 2
       /\ text[1] = <<"{">>
       /\ text[Len(text)] = <<"}">>
      THEN Some([d \in Drivers |->
                   text[1 + CHOOSE i \in 1..Len(SortedDrivers) : SortedDrivers[i] = d][2]])
      ELSE None

\* DriverRecordsStore._load on the records file (None: there is no file)
load(file) ==
    IF file = None THEN empty_store
    ELSE IF json_loads(file[1]) = None THEN empty_store
    ELSE json_loads(file[1])[1]

\* open(path, "w") of Path.write_text: the file exists and is empty
write_text_open(file, text) == Some(<<>>)

\* the lap times of the rows stored in PersistSpec
StoredLapTimes == {20, 30}

\* the lap row SharedState.update hands to add_lap
lap_entry(st, d, lap_time) ==
    [lap_number |-> Len(st[d].sessions[current_session_id(st, d)]) + 1,
     lap_time_sec |-> lap_time,
     splits_sec |-> <<Some(lap_time), Some(lap_time), Some(lap_time)>>,
     completed_at_sec |-> lap_time,
     driver |-> d,
     session_id |-> current_session_id(st, d)]

PersistInit ==
    /\ EcuIdle
    /\ CallIdle
    /\ ThrIdle
    /\ lines = <<>>
    /\ append_counter = 0
    /\ max_entries = DEFAULT_MAX_ENTRIES
    /\ SpoolIdle
    /\ LoopIdle
    /\ ChunkIdle
    /\ FrameIdle
    /\ ReqIdle
    /\ timing = <<>>
    /\ lap_obs = <<>>
    /\ hud = <<>>
    /\ hud_obs = <<>>
    /\ store = empty_store
    /\ disk = [file |-> None, prev |-> None, text |-> <<>>, pc |-> "idle", persists |-> 0]

\* persist() up to and including the open of write_text, data being the new document
persist_open(data) ==
    /\ store' = data
    /\ disk' = [file |-> write_text_open(disk.file, json_dumps(data)),
                prev |-> disk.file,
                text |-> json_dumps(data),
                pc |-> "write",
                persists |-> disk.persists + 1]

\* add_lap: the row is appended in memory and persist() starts
PersistAddLap(d, lap_time) ==
    /\ disk.pc = "idle"
    /\ disk.persists < MaxPersists
    /\ persist_open(add_lap(store, d, lap_entry(store, d, lap_time)))
    /\ UNCHANGED <<spoolVars, spoolObs, loopVars, loopObs, chunkVars, frameVars, reqVars,
                   lapVars, hud, hud_obs, ecu_link, fcall, thr>>

\* reset_session: the new session is created in memory and persist() starts
PersistResetSession(d) ==
    /\ disk.pc = "idle"
    /\ disk.persists < MaxPersists
    /\ persist_open(reset_session(store, d))
    /\ UNCHANGED <<spoolVars, spoolObs, loopVars, loopObs, chunkVars, frameVars, reqVars,
                   lapVars, hud, hud_obs, ecu_link, fcall, thr>>

\* the next k tokens of the text reach the file; after the last one it is closed
PersistWrite(k) ==
    /\ disk.pc = "write"
    /\ LET done == Len(disk.file[1])
       IN  /\ done + k <= Len(disk.text)
           /\ disk' = [disk EXCEPT
                         !.file = Some(disk.file[1] \o SubSeq(disk.text, done + 1, done + k)),
                         !.pc = IF done + k = Len(disk.text) THEN "idle" ELSE "write"]
    /\ UNCHANGED <<store, spoolVars, spoolObs, loopVars, loopObs, chunkVars, frameVars, reqVars,
                   lapVars, hud, hud_obs, ecu_link, fcall, thr>>

\* the process is killed or the power fails
PersistCrash ==
    /\ disk.pc \in {"idle", "write"}
    /\ disk' = [disk EXCEPT !.pc = "down"]
    /\ UNCHANGED <<store, spoolVars, spoolObs, loopVars, loopObs, chunkVars, frameVars, reqVars,
                   lapVars, hud, hud_obs, ecu_link, fcall, thr>>

\* the next run: DriverRecordsStore.__init__ loads the file
PersistRecover ==
    /\ disk.pc = "down"
    /\ store' = load(disk.file)
    /\ disk' = [disk EXCEPT !.pc = "idle", !.prev = disk.file, !.text = <<>>]
    /\ UNCHANGED <<spoolVars, spoolObs, loopVars, loopObs, chunkVars, frameVars, reqVars,
                   lapVars, hud, hud_obs, ecu_link, fcall, thr>>

PersistNext ==
    \/ \E d \in Drivers, lap_time \in StoredLapTimes : PersistAddLap(d, lap_time)
    \/ \E d \in Drivers : PersistResetSession(d)
    \/ \E k \in 1..(Len(SortedDrivers) + 2) : PersistWrite(k)
    \/ PersistCrash
    \/ PersistRecover

PersistSpec == PersistInit /\ [][PersistNext]_vars

(***************************************************************************)
(* JsonlSpool under a crash.  append opens the file in append mode and     *)
(* writes one line.  drop_first_lines and trim read the whole file, open   *)
(* it for writing, which empties it, and write the lines they keep; the    *)
(* lines reach the file in pieces.  `disk.owed` is the set of samples that *)
(* were spooled and are neither published nor given up by a trim; the      *)
(* process can stop at every point, and the next run finds the file as it  *)
(* was left.                                                               *)
(***************************************************************************)
\* the seq values of the samples in a spool file
Seqs(ls) == { ls[j].seq : j \in 1..Len(ls) }

CrashInit ==
    /\ EcuIdle
    /\ CallIdle
    /\ ThrIdle
    /\ ChunkIdle
    /\ FrameIdle
    /\ ReqIdle
    /\ GpsIdle
    /\ LoopIdle
    /\ SpoolIdle
    /\ \E n \in 0..MaxSpoolLen :
          /\ lines = [j \in 1..n |-> Dumps([seq |-> j])]
          /\ disk = [pc |-> "idle", kept |-> <<>>, owed |-> 1..n, next |-> n + 1, ops |-> 0]
    /\ append_counter \in {0, TRIM_EVERY - 1}
    /\ max_entries \in MaxEntriesChoices

\* open(path, "w"): the file is emptied; the lines to keep are still to be written
rewrite_open(kept) ==
    /\ lines' = <<>>
    /\ disk' = [disk EXCEPT !.pc = "rewrite", !.kept = kept, !.owed = @ \cap Seqs(kept),
                            !.ops = @ + 1]

\* JsonlSpool.append up to the trim: the line is written in append mode
CrashAppend ==
    /\ disk.pc = "idle"
    /\ disk.ops < MaxCrashOps
    /\ lines' = Append(lines, Dumps([seq |-> disk.next]))
    /\ disk' = [disk EXCEPT !.owed = @ \cup {disk.next}, !.next = @ + 1,
                            !.pc = IF append_counter + 1 >= TRIM_EVERY THEN "trim" ELSE "idle",
                            !.ops = IF append_counter + 1 >= TRIM_EVERY THEN @ ELSE @ + 1]
    /\ append_counter' = IF append_counter + 1 >= TRIM_EVERY THEN 0 ELSE append_counter + 1
    /\ UNCHANGED <<max_entries, spoolObs, loopVars, loopObs, chunkVars, frameVars, reqVars,
                   gpsVars, ecu_link, fcall, thr>>

\* JsonlSpool.trim, called by the 100th append, up to the open for writing
CrashTrim ==
    /\ disk.pc = "trim"
    /\ IF Len(lines) <= max_entries
         THEN /\ disk' = [disk EXCEPT !.pc = "idle", !.ops = @ + 1]
              /\ UNCHANGED lines
         ELSE rewrite_open(SliceLast(lines, max_entries))
    /\ UNCHANGED <<append_counter, max_entries, spoolObs, loopVars, loopObs, chunkVars,
                   frameVars, reqVars, gpsVars, ecu_link, fcall, thr>>

\* flush_spool has published the first count lines; drop_first_lines(count) up
\* to the unlink or the open for writing
CrashDropFirst(count) ==
    /\ disk.pc = "idle"
    /\ disk.ops < MaxCrashOps
    /\ count <= Len(lines)
    /\ IF count >= Len(lines)
         THEN /\ lines' = <<>>
              /\ disk' = [disk EXCEPT !.owed = {}, !.ops = @ + 1]
         ELSE rewrite_open(SliceFrom(lines, count))
    /\ UNCHANGED <<append_counter, max_entries, spoolObs, loopVars, loopObs, chunkVars,
                   frameVars, reqVars, gpsVars, ecu_link, fcall, thr>>

\* f.writelines(...): the next k lines reach the file; after the last the file is closed
CrashRewrite(k) ==
    /\ disk.pc = "rewrite"
    /\ k <= Len(disk.kept)
    /\ lines' = lines \o SubSeq(disk.kept, 1, k)
    /\ disk' = [disk EXCEPT !.kept = SliceFrom(@, k),
                            !.pc = IF k = Len(disk.kept) THEN "idle" ELSE "rewrite"]
    /\ UNCHANGED <<append_counter, max_entries, spoolObs, loopVars, loopObs, chunkVars,
                   frameVars, reqVars, gpsVars, ecu_link, fcall, thr>>

\* the process is killed or the power fails
CrashStop ==
    /\ disk.pc \in {"idle", "trim", "rewrite"}
    /\ disk' = [disk EXCEPT !.pc = "down", !.kept = <<>>]
    /\ UNCHANGED <<spoolVars, spoolObs, loopVars, loopObs, chunkVars, frameVars, reqVars,
                   gpsVars, ecu_link, fcall, thr>>

\* the next run: JsonlSpool.__init__ on the file as it was left
CrashRestart ==
    /\ disk.pc = "down"
    /\ append_counter' = 0
    /\ disk' = [disk EXCEPT !.pc = "idle"]
    /\ UNCHANGED <<lines, max_entries, spoolObs, loopVars, loopObs, chunkVars, frameVars,
                   reqVars, gpsVars, ecu_link, fcall, thr>>

CrashNext ==
    \/ CrashAppend
    \/ CrashTrim
    \/ \E count \in 1..MaxDrop : CrashDropFirst(count)
    \/ \E k \in 1..MaxSpoolLen : CrashRewrite(k)
    \/ CrashStop
    \/ CrashRestart

CrashSpec == CrashInit /\ [][CrashNext]_vars

(***************************************************************************)
(* The serial side of cmd_mqtt.  `ecu_link.line` is the K-line as the      *)
(* environment leaves it: "up" (the ECU answers every request) or "down"   *)
(* (every request times out or the serial device raises).  One action is   *)
(* one pass of the while loop: the serial initialisation when client is    *)
(* None, else an iteration in Run.  The backoff is kept as the exact       *)
(* fraction num/den of a second.                                           *)
(***************************************************************************)
\* the ROM identities an ECU on the line reports
RomIds == {"A2WC522N", "A4TF800F"}

\* the --backoff-max values of the runs
BackoffMaxChoices == {2, BACKOFF_MAX}

\* backoff = max(0.1, args.backoff_min), with --backoff-min at its default
backoff_start == [num |-> BACKOFF_MIN, den |-> 1]

\* a faulty growth: the backoff doubles
backoff_grow_doubles(b, backoff_max) ==
    IF 2 * b.num >= backoff_max * b.den
      THEN [num |-> backoff_max, den |-> 1]
      ELSE [num |-> 2 * b.num, den |-> b.den]

\* backoff = min(args.backoff_max, backoff * 1.5)
backoff_grow(b, backoff_max) ==
    IF 3 * b.num >= backoff_max * 2 * b.den
      THEN [num |-> backoff_max, den |-> 1]
      ELSE [num |-> 3 * b.num, den |-> 2 * b.den]

\* read_chunked run to its end on a line that answers every read (up) or none
RECURSIVE read_chunked(_, _, _, _, _)
read_chunked(st, n, retries, best_effort, up) ==
    IF st.pc = "raised" \/ st.i >= n THEN st
    ELSE read_chunked(chunk_pass(st, n, retries, best_effort,
                                 IF up THEN 0 ELSE Attempts(retries)),
                      n, retries, best_effort, up)

\* the stages of the serial initialisation that can raise, and "none"
InitFailures == {"none", "open", "handshake", "catalog"}

\* a faulty close_serial: the handle stays open
close_serial_leaks(open, ser) == open

\* close_serial(ser) on the set of open serial handles
close_serial(open, ser) == IF ser = None THEN open ELSE open \ {ser[1]}

\* a faulty count: a published sample is counted as spooled too
count_sample_twice(st, published) ==
    IF published THEN [st EXCEPT !.samples_ok = @ + 1, !.samples_spooled = @ + 1]
    ELSE [st EXCEPT !.samples_spooled = @ + 1]

\* the sample of the iteration is counted: samples_ok after the publish,
\* samples_spooled after spool.append in the except and else branches
count_sample(st, published) ==
    IF published THEN [st EXCEPT !.samples_ok = @ + 1]
    ELSE [st EXCEPT !.samples_spooled = @ + 1]

\* delay = min(args.backoff_max, backoff)
backoff_delay(b, backoff_max) ==
    IF b.num >= backoff_max * b.den THEN [num |-> backoff_max, den |-> 1] ELSE b

EcuInit ==
    /\ DiskIdle
    /\ CallIdle
    /\ ThrIdle
    /\ ChunkIdle
    /\ FrameIdle
    /\ ReqIdle
    /\ GpsIdle
    /\ LoopIdle
    /\ SpoolIdle
    /\ lines = <<>>
    /\ append_counter = 0
    /\ max_entries = DEFAULT_MAX_ENTRIES
    /\ \E a \in [n : {1, MaxAddrs}, chunk_size : {1, MaxChunk}, retries : {0},
                 backoff_max : BackoffMaxChoices],
          line \in {"up", "down"} :
          ecu_link = [args |-> a,
                      line |-> line,
                      pc |-> "loop",
                      ret |-> None,
                      ser |-> None,
                      open |-> {},
                      opened |-> 0,
                      client |-> FALSE,
                      cu |-> None,
                      conn_state |-> [connected |-> FALSE, loop_started |-> FALSE],
                      mqtt_loop |-> "none",
                      mqtt_disconnected |-> FALSE,
                      backoff |-> backoff_start,
                      fails |-> [init |-> 0, all |-> 0],
                      stats |-> [samples_total |-> 0, samples_ok |-> 0, samples_spooled |-> 0,
                                 samples_failed |-> 0, serial_failures |-> 0],
                      seq |-> 0,
                      uncounted |-> 0,
                      last |-> [op |-> "start", values |-> {}, delay |-> None,
                                state_file |-> "none"]]

\* if client is None: open_serial_client, get_cu_data, params_for_rom; the
\* except branch when one of them raises: `fail` is the stage that does
EcuSerialInit(rom, fail) ==
    /\ ecu_link.pc = "loop"
    /\ ~ecu_link.client
    /\ ecu_link.stats.samples_total < MaxSamples
    /\ fail = "handshake" => ecu_link.line = "down"
    /\ fail \in {"none", "catalog"} => ecu_link.line = "up"
    /\ LET h == ecu_link.opened + 1
           ser == IF fail = "open" THEN ecu_link.ser ELSE Some(h)
           open == IF fail = "open" THEN ecu_link.open ELSE ecu_link.open \cup {h}
       IN  IF fail = "none"
             THEN ecu_link' = [ecu_link EXCEPT !.ser = ser,
                                               !.open = open,
                                               !.opened = h,
                                               !.client = TRUE,
                                               !.cu = Some(rom),
                                               !.backoff = backoff_start,
                                               !.fails = [init |-> 0, all |-> 0],
                                               !.last = [op |-> "init_ok", values |-> {},
                                                         delay |-> None,
                                                         state_file |-> @.state_file]]
             ELSE /\ ecu_link.stats.samples_failed < MaxEcuFailures
                  /\ ecu_link' = [ecu_link EXCEPT
                        !.stats.serial_failures = @ + 1,
                        !.stats.samples_failed = @ + 1,
                        !.open = close_serial(open, ser),
                        !.opened = IF fail = "open" THEN @ ELSE h,
                        !.ser = None,
                        !.client = FALSE,
                        !.backoff = backoff_grow(@, ecu_link.args.backoff_max),
                        !.fails = [init |-> @.init + 1, all |-> @.all + 1],
                        !.last = [op |-> "init_failed", values |-> {},
                                  delay |-> Some(backoff_delay(ecu_link.backoff,
                                                               ecu_link.args.backoff_max)),
                                  state_file |-> "degraded"]]
    /\ UNCHANGED <<spoolVars, spoolObs, loopVars, loopObs, chunkVars, frameVars, reqVars,
                   gpsVars, disk, fcall, thr>>

\* an iteration with a live client: read_chunked(best_effort=True), decode,
\* count the sample, ensure_mqtt_connected, publish or spool it, write the
\* state file; a successful publish sets the backoff to its start value
EcuRun(res, published) ==
    /\ ecu_link.pc = "loop"
    /\ ecu_link.client
    /\ ecu_link.stats.samples_total < MaxSamples
    /\ LET a == ecu_link.args
           r == read_chunked([i |-> 0, chunk_size |-> a.chunk_size, out |-> {}, pc |-> "loop"],
                             a.n, a.retries, TRUE, ecu_link.line = "up")
           e == ensure_mqtt_connected(ecu_link.conn_state, res)
       IN  /\ published => e.ret
           /\ ecu_link' = [ecu_link EXCEPT
                 !.stats = count_sample([@ EXCEPT !.samples_total = @ + 1], published),
                 !.seq = ecu_link.stats.samples_total + 1,
                 !.conn_state = e.conn_state,
                 !.mqtt_loop = IF e.conn_state.loop_started THEN "running" ELSE @,
                 !.backoff = IF published THEN backoff_start ELSE @,
                 !.fails = IF published THEN [init |-> 0, all |-> 0] ELSE @,
                 !.last = [op |-> "run", values |-> r.out, delay |-> None,
                           state_file |-> IF published THEN "running" ELSE "degraded"]]
    /\ UNCHANGED <<spoolVars, spoolObs, loopVars, loopObs, chunkVars, frameVars, reqVars,
                   gpsVars, disk, fcall, thr>>

\* an iteration with a live client in which a statement outside the inner try
\* blocks raises a file I/O error: spool.append before the sample is counted
\* as spooled, or write_json_atomic of the state file after the sample was
\* counted; the outer except branch
EcuUnhandled(at, published) ==
    /\ ecu_link.pc = "loop"
    /\ ecu_link.client
    /\ ecu_link.stats.samples_total < MaxSamples
    /\ ecu_link.stats.samples_failed < MaxEcuFailures
    /\ at = "append" => ~published
    /\ LET a == ecu_link.args
           r == read_chunked([i |-> 0, chunk_size |-> a.chunk_size, out |-> {}, pc |-> "loop"],
                             a.n, a.retries, TRUE, ecu_link.line = "up")
           counted == [ecu_link.stats EXCEPT !.samples_total = @ + 1]
       IN  ecu_link' = [ecu_link EXCEPT
                          !.stats = [(IF at = "append" THEN counted
                                      ELSE count_sample(counted, published))
                                       EXCEPT !.samples_failed = @ + 1],
                          !.seq = counted.samples_total,
                          !.uncounted = IF at = "append" THEN @ + 1 ELSE @,
                          !.open = close_serial(@, ecu_link.ser),
                          !.ser = None,
                          !.client = FALSE,
                          !.backoff = backoff_grow(@, a.backoff_max),
                          !.fails = [init |-> 0, all |-> @.all + 1],
                          !.last = [op |-> "unhandled", values |-> r.out,
                                    delay |-> Some(backoff_delay(ecu_link.backoff, a.backoff_max)),
                                    state_file |-> "degraded"]]
    /\ UNCHANGED <<spoolVars, spoolObs, loopVars, loopObs, chunkVars, frameVars, reqVars,
                   gpsVars, disk, fcall, thr>>

\* the loop ends: after `samples` samples, or by KeyboardInterrupt between
\* two statements of the loop or, with no client yet, right after the serial
\* device was opened; then the finally block
EcuExit(how) ==
    /\ ecu_link.pc = "loop"
    /\ how = "samples" => ecu_link.stats.samples_total >= MaxSamples
    /\ how = "interrupt_in_init" => ~ecu_link.client
    /\ LET h == ecu_link.opened + 1
           in_init == how = "interrupt_in_init"
           ser == IF in_init THEN Some(h) ELSE ecu_link.ser
           open == IF in_init THEN ecu_link.open \cup {h} ELSE ecu_link.open
       IN  ecu_link' = [ecu_link EXCEPT
              !.pc = "returned",
              !.ret = Some(IF how = "samples" THEN 0 ELSE 130),
              !.opened = IF in_init THEN h ELSE @,
              !.ser = ser,
              !.open = close_serial(open, ser),
              !.mqtt_loop = IF ecu_link.conn_state.loop_started THEN "stopped" ELSE @,
              !.mqtt_disconnected = TRUE,
              !.last = [op |-> "exit", values |-> {}, delay |-> None,
                        state_file |-> @.state_file]]
    /\ UNCHANGED <<spoolVars, spoolObs, loopVars, loopObs, chunkVars, frameVars, reqVars,
                   gpsVars, disk, fcall, thr>>

\* the environment: the ignition is switched or the cable pulled or plugged
EcuLine(line) ==
    /\ ecu_link.pc = "loop"
    /\ line # ecu_link.line
    /\ ecu_link' = [ecu_link EXCEPT !.line = line]
    /\ UNCHANGED <<spoolVars, spoolObs, loopVars, loopObs, chunkVars, frameVars, reqVars,
                   gpsVars, disk, fcall, thr>>

EcuNext ==
    \/ \E rom \in RomIds, fail \in InitFailures : EcuSerialInit(rom, fail)
    \/ \E res \in ConnectResults, published \in BOOLEAN : EcuRun(res, published)
    \/ \E at \in {"append", "state_file"}, published \in BOOLEAN : EcuUnhandled(at, published)
    \/ \E how \in {"samples", "interrupt", "interrupt_in_init"} : EcuExit(how)
    \/ \E line \in {"up", "down"} : EcuLine(line)

EcuSpec == EcuInit /\ [][EcuNext]_vars

(***************************************************************************)
(* RomRaiderSSM.params_for_rom.  A definitions document maps an ecu type   *)
(* to its node: the include attribute as a list of types and the           *)
(* <parameter> children in document order.  A parameter definition is its  *)
(* id, one value `attrs` standing for its offset, storage type, expression *)
(* and unit, and whether _parse_parameter accepts it.  The chosen ecu is   *)
(* the node of type "ecu"; the meta dict of the result is left out.        *)
(***************************************************************************)
\* the parameter ids of the model; both have the topic slug "load"
ParamIds == {"Load", "load"}

\* slugify_metric on the ids of the model
slugify_metric(name) == "load"

\* the <parameter> elements a node may hold
ParamDefs ==
    [id : ParamIds, attrs : {1, 2}, parses : {TRUE}]
        \cup {[id |-> "Load", attrs |-> 1, parses |-> FALSE]}

\* the sequences over S of length at most n
SeqsUpTo(S, n) == UNION { [1..k -> S] : k \in 0..n }

\* the definitions documents: the chosen ecu, and a node of type "base" that
\* the ecu may include, twice or next to a type no node has, and that may
\* include the ecu in turn
ParamDocs ==
    { [t \in {"ecu", "base"} |->
          IF t = "ecu" THEN [include |-> ie, parameters |-> pe]
                       ELSE [include |-> ib, parameters |-> pb]] :
        ie \in {<<>>, <<"base">>, <<"base", "base">>, <<"none", "base">>},
        ib \in {<<>>, <<"ecu">>},
        pe \in SeqsUpTo(ParamDefs, MaxParams),
        pb \in SeqsUpTo(ParamDefs, MaxParams) }

\* the position of the key name in the ordered dict, 0 when it is not a key
key_index(od, name) ==
    IF \E j \in 1..Len(od) : od[j].id = name
      THEN CHOOSE j \in 1..Len(od) : od[j].id = name
      ELSE 0

\* a faulty assignment: an existing key keeps its value (setdefault)
od_set_keeps_first(od, name, value) ==
    IF key_index(od, name) = 0 THEN Append(od, value) ELSE od

\* params[parsed.name] = parsed on an OrderedDict: a new key goes to the end,
\* an existing key keeps its place and takes the new value
od_set(od, name, value) ==
    IF key_index(od, name) = 0 THEN Append(od, value)
    ELSE [od EXCEPT ![key_index(od, name)] = value]

\* for pnode in node.findall("parameter"): from the k-th child on
RECURSIVE collect_parameters(_, _, _)
collect_parameters(pnodes, k, st) ==
    IF k > Len(pnodes) THEN st
    ELSE collect_parameters(pnodes, k + 1,
            IF pnodes[k].parses
              THEN [st EXCEPT !.params = od_set(@, pnodes[k].id, pnodes[k])]
              ELSE [st EXCEPT !.skipped = @ + 1])

\* _collect(node), and its loop over the includes from the k-th on
RECURSIVE collect(_, _, _)
RECURSIVE collect_includes(_, _, _, _)
collect_includes(doc, includes, k, st) ==
    IF k > Len(includes) THEN st
    ELSE IF includes[k] \in st.visited_types
      THEN collect_includes(doc, includes, k + 1, st)
    ELSE LET seen == [st EXCEPT !.visited_types = @ \cup {includes[k]}]
         IN  collect_includes(doc, includes, k + 1,
                IF includes[k] \in DOMAIN doc THEN collect(doc, includes[k], seen) ELSE seen)

collect(doc, type, st) ==
    collect_parameters(doc[type].parameters, 1,
                       collect_includes(doc, doc[type].include, 1, st))

\* the topic of the j-th collected parameter: the slug, with _<n> from the
\* second parameter of the same slug on
final_topic(od, j) ==
    LET idx == Cardinality({ i \in 1..(j - 1) :
                               slugify_metric(od[i].id) = slugify_metric(od[j].id) })
    IN  IF idx > 0 THEN <<slugify_metric(od[j].id), idx + 1>> ELSE <<slugify_metric(od[j].id)>>

\* RomRaiderSSM.params_for_rom: the parameter list and the skipped count
params_for_rom(doc) ==
    LET st == collect(doc, "ecu", [visited_types |-> {}, params |-> <<>>, skipped |-> 0])
    IN  [final |-> [j \in 1..Len(st.params) |->
                      [name |-> st.params[j].id, topic |-> final_topic(st.params, j),
                       attrs |-> st.params[j].attrs]],
         skipped |-> st.skipped]

\* the definitions accepted along the walk, in the order _collect meets them
RECURSIVE walk(_, _, _)
RECURSIVE walk_includes(_, _, _, _)
walk_includes(doc, includes, k, st) ==
    IF k > Len(includes) THEN st
    ELSE IF includes[k] \in st.visited_types
      THEN walk_includes(doc, includes, k + 1, st)
    ELSE LET seen == [st EXCEPT !.visited_types = @ \cup {includes[k]}]
         IN  walk_includes(doc, includes, k + 1,
                IF includes[k] \in DOMAIN doc THEN walk(doc, includes[k], seen) ELSE seen)

walk(doc, type, st) ==
    LET st1 == walk_includes(doc, doc[type].include, 1, st)
    IN  [st1 EXCEPT !.met = @ \o SelectSeq(doc[type].parameters, LAMBDA p : p.parses)]

ParamsInit ==
    /\ DiskIdle
    /\ EcuIdle
    /\ ThrIdle
    /\ ChunkIdle
    /\ FrameIdle
    /\ ReqIdle
    /\ GpsIdle
    /\ LoopIdle
    /\ SpoolIdle
    /\ lines = <<>>
    /\ append_counter = 0
    /\ max_entries = DEFAULT_MAX_ENTRIES
    /\ \E doc \in ParamDocs : fcall = [fn |-> "params_for_rom", arg |-> doc, ret |-> None]

\* rr.params_for_rom(rom_id) on the document
ParamsCall ==
    /\ fcall.ret = None
    /\ fcall' = [fcall EXCEPT !.ret = Some(params_for_rom(fcall.arg))]
    /\ UNCHANGED <<spoolVars, spoolObs, loopVars, loopObs, chunkVars, frameVars, reqVars,
                   gpsVars, disk, ecu_link, thr>>

ParamsNext == ParamsCall

ParamsSpec == ParamsInit /\ [][ParamsNext]_vars

(***************************************************************************)
(* decode_rr_params and compile_expr.  Values are kept in thousandths, so  *)
(* that value/8 and the rounding to `decimals` places are exact.  An       *)
(* expression is one of the texts of DecodeExprs; what the evaluator       *)
(* returns is a record: the value, or the fact that it raised.             *)
(***************************************************************************)
\* the expr attributes of the model
DecodeExprs == {"", "value/8", "value/0", "__import__('os')", "value+getlogparam('p1')"}

\* ALLOWED_EXPR_NAMES: the names an expression may use and call
ALLOWED_EXPR_NAMES == {"value", "abs", "min", "max", "round", "pow", "getlogparam"}

\* the names that occur in an expression of the model
expr_names(expr) ==
    CASE expr = "value/8" -> {"value"}
      [] expr = "value/0" -> {"value"}
      [] expr = "__import__('os')" -> {"__import__"}
      [] expr = "value+getlogparam('p1')" -> {"value", "getlogparam"}
      [] OTHER -> {}

\* compile_expr: None for an empty expression and for one the sandbox rejects,
\* else the evaluator, which is named by the expression
compile_expr(expr) ==
    IF expr = "" THEN None
    ELSE IF ~(expr_names(expr) \subseteq ALLOWED_EXPR_NAMES) THEN None
    ELSE Some(expr)

\* the function _eval of compile_expr on the raw value and the resolved values
evaluate(expr, value, resolved) ==
    CASE expr = "value/8" -> [raised |-> FALSE, value |-> value \div 8]
      [] expr = "value/0" -> [raised |-> TRUE, value |-> 0]
      [] expr = "value+getlogparam('p1')" ->
            [raised |-> FALSE,
             value |-> value + (IF "p1" \in DOMAIN resolved THEN resolved["p1"] ELSE 0)]
      [] OTHER -> [raised |-> TRUE, value |-> 0]

\* round(value, ndigits) on thousandths: to the nearest multiple of
\* 10^(3 - ndigits) thousandths, a tie to the even one
round(value, ndigits) ==
    LET unit == IF ndigits >= 3 THEN 1 ELSE IF ndigits = 2 THEN 10
                ELSE IF ndigits = 1 THEN 100 ELSE 1000
        q == IF value >= 0 THEN value \div unit ELSE -((-value + unit - 1) \div unit)
        r == value - q * unit
    IN  IF 2 * r < unit THEN q * unit
        ELSE IF 2 * r > unit THEN (q + 1) * unit
        ELSE IF q % 2 = 0 THEN q * unit ELSE (q + 1) * unit

\* RomRaiderSSM._storagetype_size on the storage types of the model
storagetype_size(storagetype) == IF storagetype = "uint16" THEN 2 ELSE 1

\* decode_raw_value: int.from_bytes(bytes, "big", signed=storagetype.startswith("int"))
decode_raw_value(raw_bytes, storagetype) ==
    LET unsigned == IF Len(raw_bytes) = 1 THEN raw_bytes[1] ELSE raw_bytes[1] * 256 + raw_bytes[2]
    IN  IF storagetype = "int8" /\ unsigned >= 128 THEN unsigned - 256 ELSE unsigned

\* f with the key k set to v
dict_set(f, k, v) == [x \in DOMAIN f \cup {k} |-> IF x = k THEN v ELSE f[x]]

\* a faulty test: only the first byte of the parameter has to be there
any_missing_first_only(data_by_addr, p) == p.addr \notin DOMAIN data_by_addr

\* any(v is None for v in bytes_for_param)
any_missing(data_by_addr, p) ==
    \E i \in 0..(p.size - 1) : p.addr + i \notin DOMAIN data_by_addr

\* a faulty call of the evaluator, outside any try: what it raises goes up
guarded_eval_unguarded(evaluator, raw_value, resolved) ==
    IF evaluator = None THEN [raised |-> FALSE, value |-> raw_value]
    ELSE evaluate(evaluator[1], raw_value, resolved)

\* value = raw_value; if evaluator is not None: try / except Exception
guarded_eval(evaluator, raw_value, resolved) ==
    IF evaluator = None THEN [raised |-> FALSE, value |-> raw_value]
    ELSE IF evaluate(evaluator[1], raw_value, resolved).raised
      THEN [raised |-> FALSE, value |-> raw_value]
    ELSE evaluate(evaluator[1], raw_value, resolved)

\* the raw value of a parameter whose bytes are there, in thousandths
raw_value_of(data_by_addr, p) ==
    LET got(i) == IF p.addr + i \in DOMAIN data_by_addr THEN data_by_addr[p.addr + i] ELSE 0
        bytes_for_param == [i \in 1..p.size |-> got(i - 1)]
    IN  IF p.kind = "bool" /\ p.size = 1 /\ 1 <= p.bit /\ p.bit <= 8 /\ p.expr \in {"", "value"}
          THEN 1000 * ((bytes_for_param[1] \div (2 ^ (p.bit - 1))) % 2)
          ELSE 1000 * decode_raw_value(bytes_for_param, p.storagetype)

\* the loop of decode_rr_params from the k-th parameter on
RECURSIVE decode_loop(_, _, _, _)
decode_loop(data_by_addr, params, k, st) ==
    IF k > Len(params) \/ st.raised THEN st
    ELSE LET p == params[k]
             raw_value == raw_value_of(data_by_addr, p)
             got == guarded_eval(compile_expr(p.expr), raw_value, st.resolved_by_name)
             value == round(got.value, Max(0, p.decimals))
         IN  decode_loop(data_by_addr, params, k + 1,
                IF any_missing(data_by_addr, p) THEN st
                ELSE IF got.raised THEN [st EXCEPT !.raised = TRUE]
                ELSE [raised |-> FALSE,
                      metrics |-> dict_set(st.metrics, p.topic, value),
                      units |-> dict_set(st.units, p.topic, p.unit),
                      resolved_by_name |-> dict_set(st.resolved_by_name, p.name, value)])

\* decode_rr_params: metrics, units, resolved_by_name, or the fact that it raised
decode_rr_params(data_by_addr, params) ==
    decode_loop(data_by_addr, params, 1,
                [raised |-> FALSE, metrics |-> <<>>, units |-> <<>>, resolved_by_name |-> <<>>])

\* the address-value maps: any part of three addresses, the bytes 0x04 and 0xFF
DataMaps == UNION { [A -> {4, 255}] : A \in SUBSET {1, 2, 3} }

\* the ways a parameter is decoded: expression, decimals, kind and bit
Decodings ==
    { [expr |-> "", decimals |-> 3, kind |-> "", bit |-> 0],
      [expr |-> "", decimals |-> 3, kind |-> "bool", bit |-> 1],
      [expr |-> "value/8", decimals |-> 0, kind |-> "", bit |-> 0],
      [expr |-> "value/8", decimals |-> 3, kind |-> "", bit |-> 0],
      [expr |-> "value/0", decimals |-> 3, kind |-> "", bit |-> 0],
      [expr |-> "__import__('os')", decimals |-> -1, kind |-> "", bit |-> 0],
      [expr |-> "value+getlogparam('p1')", decimals |-> 3, kind |-> "", bit |-> 0] }

\* the parameter with the name and topic `name`
RRParam(name, addr, storagetype, dec) ==
    [name |-> name, topic |-> name, addr |-> addr, size |-> storagetype_size(storagetype),
     storagetype |-> storagetype, kind |-> dec.kind, bit |-> dec.bit,
     decimals |-> dec.decimals, unit |-> IF storagetype = "uint16" THEN "rpm" ELSE "%",
     expr |-> dec.expr]

\* the parameters named `name`
RRParams(name) ==
    { RRParam(name, addr, storagetype, dec) :
        addr \in {1, 2}, storagetype \in {"uint8", "int8", "uint16"}, dec \in Decodings }

\* the parameter lists: none, p1, or p1 and p2
ParamLists ==
    {<<>>} \cup { <<p>> : p \in RRParams("p1") }
           \cup { <<p, q>> : p \in RRParams("p1"), q \in RRParams("p2") }

DecodeInit ==
    /\ DiskIdle
    /\ EcuIdle
    /\ ThrIdle
    /\ ChunkIdle
    /\ FrameIdle
    /\ ReqIdle
    /\ GpsIdle
    /\ LoopIdle
    /\ SpoolIdle
    /\ lines = <<>>
    /\ append_counter = 0
    /\ max_entries = DEFAULT_MAX_ENTRIES
    /\ \E data \in DataMaps, params \in ParamLists :
          fcall = [fn |-> "decode_rr_params", arg |-> [data_by_addr |-> data, params |-> params],
                   ret |-> None]

\* metrics, units, _resolved = decode_rr_params(values, rr_params)
DecodeCall ==
    /\ fcall.ret = None
    /\ fcall' = [fcall EXCEPT
                   !.ret = Some(decode_rr_params(fcall.arg.data_by_addr, fcall.arg.params))]
    /\ UNCHANGED <<spoolVars, spoolObs, loopVars, loopObs, chunkVars, frameVars, reqVars,
                   gpsVars, disk, ecu_link, thr>>

DecodeNext == DecodeCall

DecodeSpec == DecodeInit /\ [][DecodeNext]_vars

(***************************************************************************)
(* enumerate_supported_dtc_addr_pairs, the copy of ssm_logger.py and the   *)
(* copy of read_error_codes.py.  A flagbyte vector is a function from      *)
(* 0..len-1 to bytes; the vectors of the model have any of the bits the    *)
(* code looks at, and bit 39.0 which it does not look at, as far as the    *)
(* vector is long enough to hold them.                                     *)
(***************************************************************************)
\* the lengths of the flagbyte vectors (payload[9:] of the identity reply)
FlagbyteLens == {0, 29, 30, 33, 40, 49, 51}

\* the <<byte, bit>> positions that are set or clear in the model's vectors
FlagBits ==
    { <<28, 0>>, <<29, 4>>, <<29, 6>>, <<29, 7>>, <<39, 0>>, <<39, 4>>, <<39, 5>>,
      <<39, 6>>, <<39, 7>>, <<50, 5>>, <<50, 6>> }

\* the bit weights of b that are in the set of positions s, added up
RECURSIVE byte_of(_, _, _)
byte_of(s, b, bit) ==
    IF bit > 7 THEN 0
    ELSE (IF <<b, bit>> \in s THEN 2 ^ bit ELSE 0) + byte_of(s, b, bit + 1)

\* the flagbyte vector of length n with exactly the positions s set
flagbytes_of(n, s) == [b \in 0..(n - 1) |-> byte_of(s, b, 0)]

\* the flagbyte vectors of the model
FlagbyteVectors ==
    UNION { { flagbytes_of(n, s) : s \in SUBSET { p \in FlagBits : p[1] < n } } :
              n \in FlagbyteLens }

\* len(flagbytes)
flag_len(flagbytes) == Cardinality(DOMAIN flagbytes)

\* ssm_logger.flagbyte_bit
flagbyte_bit(flagbytes, byte_index, bit_index) ==
    IF byte_index < 0 \/ byte_index >= flag_len(flagbytes) THEN FALSE
    ELSE IF bit_index < 0 \/ bit_index > 7 THEN FALSE
    ELSE (flagbytes[byte_index] \div (2 ^ bit_index)) % 2 = 1

\* a faulty add_range: range(start, end) leaves the last address out
add_range_exclusive(start, end, hist_delta) ==
    [i \in 1..(end - start) |-> <<start + i - 1, start + i - 1 + hist_delta>>]

\* add_range: the pairs (addr, addr + hist_delta) for addr in range(start, end + 1)
add_range(start, end, hist_delta) ==
    [i \in 1..(end - start + 1) |-> <<start + i - 1, start + i - 1 + hist_delta>>]

\* the pairs of add_range if the condition holds, else none
add_if(cond, start, end, hist_delta) ==
    IF cond THEN add_range(start, end, hist_delta) ELSE <<>>

\* ssm_logger.enumerate_supported_dtc_addr_pairs: <<fmt_obd2, pairs>>
\* (0x8E = 142, 0x98 = 152, 0xAD = 173, 0xF0 = 240, 0xF3 = 243, 0x123 = 291,
\*  0x12A = 298, 0x150 = 336, 0x154 = 340, 0x160 = 352, 0x164 = 356, 0x174 = 372,
\*  0x17A = 378, 0x1C1 = 449, 0x1C6 = 454, 0x20A = 522, 0x20D = 525, 0x263 = 611,
\*  0x267 = 615)
enumerate_supported_dtc_addr_pairs(flagbytes) ==
    LET fmt_obd2 == ~flagbyte_bit(flagbytes, 29, 7)
        base == add_if(flagbyte_bit(flagbytes, 29, 4) \/ flagbyte_bit(flagbytes, 29, 6),
                       142, 173, 32)
                \o add_if(flagbyte_bit(flagbytes, 28, 0), 240, 243, 4)
        ext39 == IF flag_len(flagbytes) > 32
                 THEN add_if(flagbyte_bit(flagbytes, 39, 7), 291, 298, 8)
                      \o add_if(flagbyte_bit(flagbytes, 39, 6), 336, 340, 5)
                      \o add_if(flagbyte_bit(flagbytes, 39, 5), 352, 356, 5)
                      \o add_if(flagbyte_bit(flagbytes, 39, 4), 372, 378, 7)
                 ELSE <<>>
        ext50 == IF flag_len(flagbytes) > 32 /\ flag_len(flagbytes) > 48
                 THEN add_if(flagbyte_bit(flagbytes, 50, 6), 449, 454, 6)
                      \o add_if(flagbyte_bit(flagbytes, 50, 6), 522, 525, 4)
                      \o add_if(flagbyte_bit(flagbytes, 50, 5), 611, 615, 5)
                 ELSE <<>>
        pairs == base \o ext39 \o ext50
    IN  IF ~fmt_obd2 THEN <<fmt_obd2, add_range(142, 152, 22)>>
        ELSE IF pairs = <<>> THEN <<fmt_obd2, add_range(142, 173, 32)>>
        ELSE <<fmt_obd2, pairs>>

\* read_error_codes.flagbyte_bit
read_error_codes_flagbyte_bit(flagbytes, byte_index, bit_index) ==
    IF byte_index < 0 \/ byte_index >= flag_len(flagbytes) THEN FALSE
    ELSE IF bit_index < 0 \/ bit_index > 7 THEN FALSE
    ELSE (flagbytes[byte_index] \div (2 ^ bit_index)) % 2 = 1

\* read_error_codes.enumerate_supported_dtc_addr_pairs: <<fmt_obd2, pairs>>
read_error_codes_enumerate_supported_dtc_addr_pairs(flagbytes) ==
    LET bit(byte_index, bit_index) ==
            read_error_codes_flagbyte_bit(flagbytes, byte_index, bit_index)
        fmt_obd2 == ~bit(29, 7)
        base == add_if(bit(29, 4) \/ bit(29, 6), 142, 173, 32)
                \o add_if(bit(28, 0), 240, 243, 4)
        ext39 == IF flag_len(flagbytes) > 32
                 THEN add_if(bit(39, 7), 291, 298, 8) \o add_if(bit(39, 6), 336, 340, 5)
                      \o add_if(bit(39, 5), 352, 356, 5) \o add_if(bit(39, 4), 372, 378, 7)
                 ELSE <<>>
        ext50 == IF flag_len(flagbytes) > 32 /\ flag_len(flagbytes) > 48
                 THEN add_if(bit(50, 6), 449, 454, 6) \o add_if(bit(50, 6), 522, 525, 4)
                      \o add_if(bit(50, 5), 611, 615, 5)
                 ELSE <<>>
        pairs == base \o ext39 \o ext50
    IN  IF ~fmt_obd2 THEN <<fmt_obd2, add_range(142, 152, 22)>>
        ELSE IF pairs = <<>> THEN <<fmt_obd2, add_range(142, 173, 32)>>
        ELSE <<fmt_obd2, pairs>>

DtcInit ==
    /\ DiskIdle
    /\ EcuIdle
    /\ ThrIdle
    /\ ChunkIdle
    /\ FrameIdle
    /\ ReqIdle
    /\ GpsIdle
    /\ LoopIdle
    /\ SpoolIdle
    /\ lines = <<>>
    /\ append_counter = 0
    /\ max_entries = DEFAULT_MAX_ENTRIES
    /\ \E flagbytes \in FlagbyteVectors :
          fcall = [fn |-> "enumerate_supported_dtc_addr_pairs", arg |-> flagbytes,
                   ret |-> None, ret_read_error_codes |-> None]

\* ssm_logger.py: fmt_obd2, dtc_pairs = enumerate_supported_dtc_addr_pairs(flagbytes)
DtcCallLogger ==
    /\ fcall.ret = None
    /\ fcall' = [fcall EXCEPT !.ret = Some(enumerate_supported_dtc_addr_pairs(fcall.arg))]
    /\ UNCHANGED <<spoolVars, spoolObs, loopVars, loopObs, chunkVars, frameVars, reqVars,
                   gpsVars, disk, ecu_link, thr>>

\* read_error_codes.py: fmt_obd2, pairs = enumerate_supported_dtc_addr_pairs(flagbytes)
DtcCallReader ==
    /\ fcall.ret_read_error_codes = None
    /\ fcall' = [fcall EXCEPT !.ret_read_error_codes =
                    Some(read_error_codes_enumerate_supported_dtc_addr_pairs(fcall.arg))]
    /\ UNCHANGED <<spoolVars, spoolObs, loopVars, loopObs, chunkVars, frameVars, reqVars,
                   gpsVars, disk, ecu_link, thr>>

DtcNext == DtcCallLogger \/ DtcCallReader

DtcSpec == DtcInit /\ [][DtcNext]_vars

(***************************************************************************)
(* SharedState.update step by step, next to an HTTP handler.  The MQTT     *)
(* network thread runs update(): the projection, the outlier test, then    *)
(* `with self.lock:` the timing update, the events with their publishes    *)
(* and InfluxDB writes, the lap record and the row.  An HTTP handler       *)
(* thread runs snapshot, set_driver or reset_active_driver_session, each   *)
(* one `with self.lock:` block.  A network write is begun and ended in two *)
(* steps: in between the sink has not answered yet.                        *)
(***************************************************************************)
\* the handlers of the HTTP server that take the mutex
HttpOps == {"snapshot", "set_driver", "reset"}

\* the update() of the MQTT thread between two messages
mqtt_idle ==
    [pc |-> "idle", ts_sec |-> 0, s_m |-> 0, err_m |-> 0, driver_then |-> None,
     handlers |-> 0, io |-> <<>>, completed_lap |-> None, snap |-> None]

\* the fixes that can come next: the receiver stamps them ten seconds apart;
\* every place of the track, and one fix off the track
LockFixes ==
    { [ts_sec |-> 10 * (thr.ops + 1), s_m |-> s_m, err_m |-> MAX_TRACK_ERROR_M] :
         s_m \in 0..LapLen }
      \cup { [ts_sec |-> 10 * (thr.ops + 1), s_m |-> 0, err_m |-> MAX_TRACK_ERROR_M + 1] }

LockInit ==
    /\ DiskIdle
    /\ EcuIdle
    /\ CallIdle
    /\ lines = <<>>
    /\ append_counter = 0
    /\ max_entries = DEFAULT_MAX_ENTRIES
    /\ SpoolIdle
    /\ LoopIdle
    /\ ChunkIdle
    /\ FrameIdle
    /\ ReqIdle
    /\ timing = <<>>
    /\ lap_obs = <<>>
    /\ store = empty_store
    /\ hud = SharedState(empty_store)
    /\ hud_obs = HudObs("init", 0, {}, None)
    /\ thr = [lock |-> "free", mqtt |-> mqtt_idle, http |-> None, net |-> None,
              waited |-> FALSE, ops |-> 0, reqs |-> 0]

\* s_m, self.last_seg_idx, err_m = self.track.project(lat, lon, self.last_seg_idx)
LockProject(ts_sec, s_m, err_m) ==
    /\ thr.ops < MaxLockOps
    /\ thr.mqtt.pc = "idle"
    /\ hud' = [hud EXCEPT !.last_seg_idx = seg_of(s_m)]
    /\ thr' = [thr EXCEPT !.ops = @ + 1,
                          !.mqtt = [mqtt_idle EXCEPT !.pc = "projected", !.ts_sec = ts_sec,
                                                      !.s_m = s_m, !.err_m = err_m,
                                                      !.driver_then = Some(hud.active_driver)]]
    /\ UNCHANGED <<store, hud_obs, spoolVars, spoolObs, loopVars, loopObs, chunkVars, frameVars,
                   reqVars, lapVars, disk, ecu_link, fcall>>

\* if err_m > MAX_TRACK_ERROR_M: return
LockReject ==
    /\ thr.mqtt.pc = "projected"
    /\ is_outlier(thr.mqtt.err_m)
    /\ thr' = [thr EXCEPT !.mqtt = mqtt_idle]
    /\ UNCHANGED <<hud, store, hud_obs, spoolVars, spoolObs, loopVars, loopObs, chunkVars,
                   frameVars, reqVars, lapVars, disk, ecu_link, fcall>>

\* with self.lock: the timing update and the split events that are due
LockTiming ==
    /\ thr.mqtt.pc = "projected"
    /\ ~is_outlier(thr.mqtt.err_m)
    /\ thr.lock = "free"
    /\ LET driver == hud.active_driver
           timing_state == hud.timings[driver]
           upd == lap_update(timing_state, thr.mqtt.ts_sec, thr.mqtt.s_m)
           events == split_events(driver, current_session_id(store, driver),
                                  timing_state.current_splits, upd.timing)
           due == { e.split_index : e \in events }
           RECURSIVE split_io(_)
           split_io(i) == IF i > 3 THEN <<>>
                          ELSE (IF i \in due THEN <<"publish_split", "influx_split">> ELSE <<>>)
                               \o split_io(i + 1)
       IN  /\ hud' = [hud EXCEPT !.timings[driver] = upd.timing]
           /\ thr' = [thr EXCEPT !.lock = "mqtt",
                                 !.mqtt.pc = "splits",
                                 !.mqtt.io = split_io(1),
                                 !.mqtt.completed_lap = upd.completed_lap,
                                 !.mqtt.snap = Some(snapshot(upd.timing, thr.mqtt.ts_sec))]
    /\ UNCHANGED <<store, hud_obs, spoolVars, spoolObs, loopVars, loopObs, chunkVars, frameVars,
                   reqVars, lapVars, disk, ecu_link, fcall>>

\* self.mqtt_client.publish(...) or urlopen(req, timeout=self.timeout_sec): the call is made
LockIoBegin ==
    /\ thr.mqtt.pc \in {"splits", "lap"}
    /\ thr.net = None
    /\ thr.mqtt.io # <<>>
    /\ thr' = [thr EXCEPT !.net = Some(Head(thr.mqtt.io)), !.mqtt.io = Tail(@)]
    /\ UNCHANGED <<hud, store, hud_obs, spoolVars, spoolObs, loopVars, loopObs, chunkVars,
                   frameVars, reqVars, lapVars, disk, ecu_link, fcall>>

\* the call returns: the sink has answered, or the timeout has passed
LockIoEnd ==
    /\ thr.net # None
    /\ thr' = [thr EXCEPT !.net = None]
    /\ UNCHANGED <<hud, store, hud_obs, spoolVars, spoolObs, loopVars, loopObs, chunkVars,
                   frameVars, reqVars, lapVars, disk, ecu_link, fcall>>

\* if completed_lap: self.records.add_lap(driver, lap_entry) and the lap event
LockLap ==
    /\ thr.mqtt.pc = "splits"
    /\ thr.mqtt.io = <<>>
    /\ thr.net = None
    /\ LET driver == hud.active_driver
           lap == thr.mqtt.completed_lap
       IN  IF lap = None
             THEN /\ store' = store
                  /\ thr' = [thr EXCEPT !.mqtt.pc = "lap"]
             ELSE /\ store' = add_lap(store, driver,
                                      [lap_number |-> lap[1].lap_number,
                                       lap_time_sec |-> lap[1].lap_time_sec,
                                       splits_sec |-> lap[1].splits_sec,
                                       completed_at_sec |-> lap[1].completed_at_sec,
                                       driver |-> driver,
                                       session_id |-> current_session_id(store, driver)])
                  /\ thr' = [thr EXCEPT !.mqtt.pc = "lap",
                                        !.mqtt.io = <<"publish_lap", "influx_lap">>]
    /\ UNCHANGED <<hud, hud_obs, spoolVars, spoolObs, loopVars, loopObs, chunkVars, frameVars,
                   reqVars, lapVars, disk, ecu_link, fcall>>

\* the row, self.latest, self.seq, self.history, self._timing_snapshot; the lock is left
LockRow ==
    /\ thr.mqtt.pc = "lap"
    /\ thr.mqtt.io = <<>>
    /\ thr.net = None
    /\ LET driver == hud.active_driver
           after == hud.timings[driver]
           row == [ts_sec |-> thr.mqtt.ts_sec, track_s_m |-> thr.mqtt.s_m,
                   lap_distance_m |-> IF after.armed THEN Some(after.lap_progress_m) ELSE None,
                   track_error_m |-> thr.mqtt.err_m, driver |-> driver]
       IN  hud' = [hud EXCEPT !.latest = Some(row),
                              !.seq = @ + 1,
                              !.history = history_append(@, thr.mqtt.s_m),
                              !.timing_snapshot = thr.mqtt.snap]
    /\ thr' = [thr EXCEPT !.lock = "free", !.mqtt = mqtt_idle]
    /\ UNCHANGED <<store, hud_obs, spoolVars, spoolObs, loopVars, loopObs, chunkVars, frameVars,
                   reqVars, lapVars, disk, ecu_link, fcall>>

\* do_GET /data, do_POST /driver or /reset-session: a handler thread gets to the lock
LockHttpRequest(op, driver) ==
    /\ thr.reqs < MaxRequests
    /\ thr.http = None
    /\ op = "set_driver" \/ driver = FirstDriver
    /\ thr' = [thr EXCEPT !.reqs = @ + 1,
                          !.http = Some([op |-> op, driver |-> driver]),
                          !.waited = FALSE]
    /\ UNCHANGED <<hud, store, hud_obs, spoolVars, spoolObs, loopVars, loopObs, chunkVars,
                   frameVars, reqVars, lapVars, disk, ecu_link, fcall>>

\* the handler finds the lock taken: it blocks in `with self.lock:`
LockHttpWait ==
    /\ thr.http # None
    /\ thr.lock # "free"
    /\ ~thr.waited
    /\ thr' = [thr EXCEPT !.waited = TRUE]
    /\ UNCHANGED <<hud, store, hud_obs, spoolVars, spoolObs, loopVars, loopObs, chunkVars,
                   frameVars, reqVars, lapVars, disk, ecu_link, fcall>>

\* snapshot, set_driver or reset_active_driver_session: the whole `with self.lock:` block
LockHttpRun(now) ==
    /\ thr.http # None
    /\ thr.lock = "free"
    /\ LET op == thr.http[1].op
           driver == hud.active_driver
           st == reset_session(store, driver)
           fresh == new_timing_for_driver(st, driver)
       IN  CASE op = "set_driver" ->
                  /\ hud' = [hud EXCEPT
                               !.active_driver = thr.http[1].driver,
                               !.timing_snapshot =
                                  Some(snapshot(hud.timings[thr.http[1].driver], now))]
                  /\ store' = store
             [] op = "reset" ->
                  /\ store' = st
                  /\ hud' = [hud EXCEPT !.timings[driver] = fresh,
                                        !.timing_snapshot = Some(snapshot(fresh, now))]
             [] OTHER -> UNCHANGED <<hud, store>>
    /\ thr' = [thr EXCEPT !.http = None,
                          !.waited = FALSE,
                          !.mqtt.handlers = IF thr.mqtt.pc = "projected" THEN @ + 1 ELSE @]
    /\ UNCHANGED <<hud_obs, spoolVars, spoolObs, loopVars, loopObs, chunkVars, frameVars,
                   reqVars, lapVars, disk, ecu_link, fcall>>

LockNext ==
    \/ \E fix \in LockFixes : LockProject(fix.ts_sec, fix.s_m, fix.err_m)
    \/ LockReject
    \/ LockTiming
    \/ LockIoBegin
    \/ LockIoEnd
    \/ LockLap
    \/ LockRow
    \/ \E op \in HttpOps, driver \in Drivers : LockHttpRequest(op, driver)
    \/ LockHttpWait
    \/ \E now \in WallClock : LockHttpRun(now)

LockSpec == LockInit /\ [][LockNext]_vars

(***************************************************************************)
(* mqtt_publish_checked and what the loop counts.  The client library's    *)
(* publish() returns a message info whose rc says whether the message was  *)
(* queued; wait_for_publish(timeout) returns when the broker acknowledged  *)
(* the message or when the timeout expired, and leaves rc as it was.       *)
(***************************************************************************)
\* the message infos publish() can return, with whether the acknowledgement
\* arrives within the timeout
MessageInfos ==
    {[rc |-> "MQTT_ERR_SUCCESS", is_published |-> b] : b \in BOOLEAN}
      \cup {[rc |-> c, is_published |-> FALSE] : c \in {"MQTT_ERR_NO_CONN", "MQTT_ERR_QUEUE_SIZE"}}

\* mqtt_publish_checked: publish, wait_for_publish(timeout_sec), raise unless
\* info.rc is MQTT_ERR_SUCCESS
mqtt_publish_checked(info, timeout_sec) ==
    [raised |-> info.rc # "MQTT_ERR_SUCCESS",
     waited |-> IF info.rc # "MQTT_ERR_SUCCESS" THEN 0
                ELSE IF info.is_published THEN 0 ELSE timeout_sec]

AckInit ==
    /\ DiskIdle
    /\ EcuIdle
    /\ ThrIdle
    /\ ChunkIdle
    /\ FrameIdle
    /\ ReqIdle
    /\ GpsIdle
    /\ LoopIdle
    /\ SpoolIdle
    /\ lines = <<>>
    /\ append_counter = 0
    /\ max_entries = DEFAULT_MAX_ENTRIES
    /\ fcall = [fn |-> "start", arg |-> <<>>, ret |-> <<>>,
                stats |-> [samples_ok |-> 0, samples_spooled |-> 0, mqtt_failures |-> 0],
                log |-> <<>>]

\* the publish of the current sample in a Run iteration with the connection up
\* and nothing to flush: publish_payload_and_metrics on {base}/data, counted
\* in samples_ok, or in samples_spooled when it raises
AckPublish(info) ==
    /\ fcall.stats.samples_ok + fcall.stats.samples_spooled < MaxSamples
    /\ LET r == mqtt_publish_checked(info, PUBLISH_TIMEOUT)
       IN  fcall' = [fcall EXCEPT
              !.fn = "publish_payload_and_metrics",
              !.arg = info,
              !.ret = r,
              !.stats.samples_ok = IF r.raised THEN @ ELSE @ + 1,
              !.stats.samples_spooled = IF r.raised THEN @ + 1 ELSE @,
              !.stats.mqtt_failures = IF r.raised THEN @ + 1 ELSE @,
              !.log = Append(@, [topic |-> "data", acked |-> info.is_published,
                                 spooled |-> r.raised])]
    /\ UNCHANGED <<spoolVars, spoolObs, loopVars, loopObs, chunkVars, frameVars, reqVars,
                   gpsVars, disk, ecu_link, thr>>

\* the status cadence: publish_status with its own timeout; a failure is
\* counted in mqtt_failures
AckStatus(info) ==
    /\ Len(fcall.log) < 2 * MaxSamples
    /\ fcall.fn # "publish_status"
    /\ LET r == mqtt_publish_checked(info, STATUS_TIMEOUT)
       IN  fcall' = [fcall EXCEPT
              !.fn = "publish_status",
              !.arg = info,
              !.ret = r,
              !.stats.mqtt_failures = IF r.raised THEN @ + 1 ELSE @,
              !.log = Append(@, [topic |-> "status", acked |-> info.is_published,
                                 spooled |-> FALSE])]
    /\ UNCHANGED <<spoolVars, spoolObs, loopVars, loopObs, chunkVars, frameVars, reqVars,
                   gpsVars, disk, ecu_link, thr>>

AckNext ==
    \/ \E info \in MessageInfos : AckPublish(info)
    \/ \E info \in MessageInfos : AckStatus(info)

AckSpec == AckInit /\ [][AckNext]_vars

(***************************************************************************)
(* The spool over one run of the loop.  The spool file outlives the        *)
(* process: a run starts with the lines an earlier run left in it, whose   *)
(* seq values come from that run's own count, and with a new JsonlSpool    *)
(* object (_append_counter = 0).  The run appends its samples with seq 1,  *)
(* 2, ... and drops the head lines its flushes sent.  The lines left by    *)
(* the earlier run carry seq values above MaxAppends, those of this run    *)
(* at most MaxAppends.                                                     *)
(***************************************************************************)
MaxLeftover == 2

Leftover(n) == [j \in 1..n |-> Dumps([seq |-> MaxAppends + j])]

SeqsOf(ls) == {ls[j].seq : j \in DOMAIN ls}

RunInit ==
    /\ EcuIdle
    /\ CallIdle
    /\ ThrIdle
    /\ ChunkIdle
    /\ FrameIdle
    /\ ReqIdle
    /\ GpsIdle
    /\ LoopIdle
    /\ SpoolIdle
    /\ \E n \in {0, MaxLeftover} : lines = Leftover(n)
    /\ append_counter = 0
    /\ max_entries \in {2, TRIM_EVERY}
    /\ disk = [spooled |-> {}, trimmed |-> {}]

\* spool.append(payload_obj) of the except and else branches, seq = samples_total
RunAppend ==
    /\ appended < MaxAppends
    /\ LET sp == append(TheSpool, [seq |-> appended + 1])
       IN  /\ lines' = sp.lines
           /\ append_counter' = sp.append_counter
           /\ disk' = [spooled |-> disk.spooled \cup {appended + 1},
                       trimmed |-> IF sp.append_counter # 0 THEN disk.trimmed
                                   ELSE disk.trimmed
                                          \cup ((SeqsOf(lines) \cup {appended + 1})
                                                  \ SeqsOf(sp.lines))]
    /\ appended' = appended + 1
    /\ UNCHANGED <<max_entries, runN, lastDrop, loopVars, loopObs, chunkVars, frameVars, reqVars, gpsVars, ecu_link, fcall, thr>>

\* a sample published directly, among the first of the run: it is counted and
\* never enters the spool
RunPublish ==
    /\ appended < MaxSamples
    /\ appended' = appended + 1
    /\ UNCHANGED <<disk, lines, append_counter, max_entries, runN, lastDrop, loopVars, loopObs,
                   chunkVars, frameVars, reqVars, gpsVars, ecu_link, fcall, thr>>

\* spool.drop_first_lines(sent_lines) at the end of flush_spool
RunDropFirst(count) ==
    /\ count <= Len(lines)
    /\ lines' = drop_first_lines(lines, count)
    /\ UNCHANGED <<disk, append_counter, max_entries, appended, runN, lastDrop, loopVars, loopObs,
                   chunkVars, frameVars, reqVars, gpsVars, ecu_link, fcall, thr>>

RunNext ==
    \/ RunAppend
    \/ RunPublish
    \/ \E count \in {1, MaxDrop} : RunDropFirst(count)

RunSpec == RunInit /\ [][RunNext]_vars

(***************************************************************************)
(* The drain of the spool while the broker is reachable: iterations of the *)
(* loop in which the connection is up and every publish succeeds, on a     *)
(* spool file of any lines: samples, lines that are not JSON, and blank    *)
(* lines, which append never writes but peek_lines provides for.  The loop *)
(* is sequential code that runs for ever, so its iterations are taken      *)
(* (weak fairness).                                                        *)
(***************************************************************************)
DrainFiles ==
    UNION { [1..n -> {Dumps([seq |-> 1]), GarbageLine, BlankLine}] : n \in 0..MaxSpoolLen }

DrainInit ==
    /\ AuxIdle
    /\ ChunkIdle
    /\ FrameIdle
    /\ ReqIdle
    /\ GpsIdle
    /\ lines \in DrainFiles
    /\ append_counter = 0
    /\ max_entries = DEFAULT_MAX_ENTRIES
    /\ SpoolIdle
    /\ pc = "read"
    /\ args \in [samples : {0}, flush_per_loop : 1..MaxFlush, dtc_interval : {0}]
    /\ stats = [samples_total |-> 0, samples_ok |-> 0, samples_spooled |-> 0,
                last_error |-> ""]
    /\ conn_state = [connected |-> TRUE, loop_started |-> TRUE]
    /\ payload_obj = NoSample
    /\ published_now = FALSE
    /\ broker = <<>>
    /\ lastFlush = NoFlush
    /\ outage = 0

\* an iteration with the connection up in which every publish succeeds:
\* flush_spool, then the sample is published and never enters the spool
DrainLoop ==
    /\ pc = "read"
    /\ conn_state.connected
    /\ LET f == flush_spool(lines, args.flush_per_loop,
                            [j \in 1..args.flush_per_loop |-> "ok"])
       IN  /\ ~f.raised
           /\ lines' = f.lines
           /\ lastFlush' = [before |-> lines,
                            outcomes |-> [j \in 1..args.flush_per_loop |-> "ok"],
                            sent_lines |-> f.sent_lines, raised |-> f.raised,
                            delivered |-> f.delivered]
    /\ UNCHANGED <<append_counter, max_entries, spoolObs, pc, args, stats, conn_state,
                   payload_obj, published_now, broker, outage, protoVars>>

DrainNext == DrainLoop

DrainSpec == DrainInit /\ [][DrainNext]_vars /\ WF_vars(DrainNext)

(***************************************************************************)
(* Properties.                                                             *)
(***************************************************************************)
Last(s) == s[Len(s)]

\* the samples lo..hi as spool lines
SampleLines(lo, hi) == [j \in 1..(hi - lo + 1) |-> Dumps([seq |-> lo + j - 1])]

\* C1: the seq values the broker receives on {base}/data are strictly
\* increasing: no sample arrives out of order and none arrives twice
\* (Spec never reaches a trim, so the spool never overflows).
C1_BrokerSeqStrictlyIncreasing ==
    \A i \in 1..(Len(broker) - 1) : broker[i] < broker[i + 1]

\* C2: whenever the current sample is published directly, the spool is
\* empty at that moment.
C2_SpoolEmptyAtDirectPublish ==
    [][(pc = "publish" /\ published_now') => lines = <<>>]_vars

C4_DepthWithinMaxEntries == depth(lines) <= max_entries

\* the head lines flush_spool looks at, and the first of them whose publish fails
C5_Peeked == SubSeq(lastFlush.before, 1, Min(Max(args.flush_per_loop, 0), Len(lastFlush.before)))

C5_Failing == {j \in 1..Len(C5_Peeked) :
                  C5_Peeked[j].text = "json" /\ lastFlush.outcomes[j] # "ok"}

C5_K == IF C5_Failing = {} THEN Len(C5_Peeked)
        ELSE (CHOOSE j \in C5_Failing : \A m \in C5_Failing : j <= m) - 1

\* C5: flush_spool removes exactly the leading k peeked lines, k counting the
\* lines that are not JSON or were published before the first publish failure;
\* it fails exactly when some publish failed, and the failed line and all
\* lines after it stay at the head in their order.
C5_FlushDropsLeadingSent ==
    lastFlush # NoFlush =>
        /\ lastFlush.sent_lines = C5_K
        /\ lines = SliceFrom(lastFlush.before, C5_K)
        /\ lastFlush.raised = (C5_Failing # {})
        /\ lastFlush.raised => lines[1] = C5_Peeked[C5_K + 1]

\* C5 witness: a damaged line and a published line were dropped, then a
\* publish failed and lines stayed behind
C5_Witness ==
    /\ lastFlush # NoFlush
    /\ lastFlush.raised
    /\ lastFlush.sent_lines >= 2
    /\ \E j \in 1..lastFlush.sent_lines : lastFlush.before[j] = GarbageLine
    /\ \E j \in 1..lastFlush.sent_lines : lastFlush.before[j] # GarbageLine
    /\ Len(lines) >= 2

\* the state after the first iteration that follows the outage
C6_AfterOutage == pc \in {"dtc", "status", "stopped"} /\ stats.samples_total = outage + 1

C6_Replayed ==
    /\ broker = [j \in 1..(outage + 1) |-> j]
    /\ lines = <<>>

\* C6 (as claimed): offline for k <= flush_per_loop samples, then every
\* publish succeeds: the next iteration delivers the k spooled samples in seq
\* order, then the new sample, and leaves the spool empty.
C6_OutageReplayedInOrder == C6_AfterOutage => C6_Replayed

\* C6 (amended): the same, provided the trim cannot have discarded a spooled
\* sample: k <= max_entries, or fewer than 100 appends since the start.
C6_OutageReplayedUnlessTrimmed ==
    (C6_AfterOutage /\ (outage <= max_entries \/ outage < TRIM_EVERY)) => C6_Replayed

\* C6 witness: an outage long enough for the trim to run, fully replayed
C6_Witness ==
    /\ C6_AfterOutage
    /\ outage >= TRIM_EVERY
    /\ outage <= max_entries
    /\ Len(broker) = outage + 1
    /\ published_now

\* what remains after N appends to an empty spool and drop_first_lines(K)
C7_Remaining(N, K) ==
    /\ depth(lines) = Max(N - K, 0)
    /\ lines = SampleLines(appended - Max(N - K, 0) + 1, appended)

\* C7 (as claimed): for all N, K >= 0, after N appends to an empty spool and
\* drop_first_lines(K), depth() = max(N-K, 0) and the remaining lines are the
\* last N-K appended lines in insertion order.
C7_AppendThenDrop ==
    lastDrop # <<>> => C7_Remaining(lastDrop[1], lastDrop[2])

\* C7 (amended): the same, provided N <= max_entries or the spool object has
\* done fewer than 100 appends since it was constructed.
C7_AppendThenDropUnlessTrimmed ==
    (lastDrop # <<>> /\ (lastDrop[1] <= max_entries \/ appended < TRIM_EVERY)) =>
        C7_Remaining(lastDrop[1], lastDrop[2])

\* C7 witness: 100 appends, the trim ran and kept them all, then 2 dropped
C7_Witness ==
    /\ lastDrop = <<TRIM_EVERY, 2>>
    /\ max_entries >= TRIM_EVERY
    /\ depth(lines) = TRIM_EVERY - 2

\* the addresses whose chunk the loop has gone past
C8_Passed == 1..rc.i

\* C8: best-effort read_chunked never raises and returns exactly the addresses
\* some read_multiple call succeeded for; an address is passed over only after
\* max(1, retries) failed reads of that address alone.  Strict mode raises in
\* that situation instead, and its normal return covers every address.
C8_BestEffortAndStrict ==
    /\ rc_args.best_effort => rc.pc # "raised"
    /\ rc.pc = "returned" => rc.out = link_log.served
    /\ \A a \in C8_Passed \ rc.out :
           /\ rc_args.best_effort
           /\ link_log.single_fails[a] >= Attempts(rc_args.retries)
    /\ rc.pc = "raised" =>
           /\ ~rc_args.best_effort
           /\ link_log.single_fails[rc.i + 1] >= Attempts(rc_args.retries)
           /\ (rc.i + 1) \notin link_log.served
    /\ (rc.pc = "returned" /\ ~rc_args.best_effort) => rc.out = 1..rc_args.n

\* C8 witness: a best-effort call returned with one address read and another skipped
C8_Witness ==
    /\ link_K = 0
    /\ rc_args.best_effort
    /\ rc.pc = "returned"
    /\ rc.out # {}
    /\ (1..rc_args.n) \ rc.out # {}

\* the chunk size the halving settles on: the first of c, c/2, c/4, ... the link accepts
RECURSIVE C9_SettledChunk(_, _)
C9_SettledChunk(c, K) ==
    IF c < K \/ c = 1 THEN c ELSE C9_SettledChunk(c \div 2, K)

C9_StubReturned == link_K >= 2 /\ rc.pc = "returned"

\* C9 (as claimed): on a link that fails from K addresses on, read_chunked of
\* 84 addresses with chunk_size 64 reads all 84 with at most ceil(84/(K-1))
\* successful read_multiple calls.
C9_ReadGroupsAtMost ==
    /\ link_K >= 2 => rc.pc # "raised"
    /\ C9_StubReturned =>
           /\ rc.out = 1..rc_args.n
           /\ link_log.ok_calls <= CeilDiv(rc_args.n, link_K - 1)

\* C9 (amended): it reads all 84 with exactly ceil(84/c) successful calls, c
\* the first of 64, 32, 16, 8, 4, 2, 1 below K; that is ceil(84/(K-1)) or more.
C9_ReadGroupsExactly ==
    /\ link_K >= 2 => rc.pc # "raised"
    /\ C9_StubReturned =>
           /\ rc.out = 1..rc_args.n
           /\ link_log.ok_calls =
                 CeilDiv(rc_args.n, C9_SettledChunk(Min(rc_args.chunk_size, rc_args.n), link_K))
           /\ link_log.ok_calls >= CeilDiv(rc_args.n, link_K - 1)

\* C9 witness: K = 4 settles on chunks of 2, more calls than ceil(n/3)
C9_Witness ==
    /\ C9_StubReturned
    /\ link_K = 4
    /\ rc.chunk_size = 2
    /\ link_log.ok_calls > CeilDiv(rc_args.n, link_K - 1)

\* C10: for every payload P with |P| <= 255, parsing _build_frame(P) yields
\* exactly one frame, its inner payload is P, and the buffer is left empty.
C10_FrameRoundTrip ==
    /\ Len(tx_payload) <= MAX_PAYLOAD_LEN => fr_pc # "raised"
    /\ fr_pc = "built" =>
           /\ Len(tx_frame) = Len(tx_payload) + 5
           /\ \A j \in 1..Len(tx_frame) : tx_frame[j] \in 0..255
    /\ fr_pc = "parsed" =>
           /\ Len(rx_frames) = 1
           /\ frame_payload(rx_frames[1]) = tx_payload
           /\ rxbuf = <<>>

\* C10 witness: a payload of 255 header bytes came back from the parser
C10_Witness ==
    /\ fr_pc = "parsed"
    /\ Len(tx_payload) = MAX_PAYLOAD_LEN
    /\ tx_payload[1] = 128
    /\ Len(rx_frames) = 1

\* the bytes request has read from the line
Received == SubSeq(Line, 1, rx_pos)

\* the one valid frame on a line that carries line noise and a single frame
C11_Frame ==
    IF wire.reply = <<>> THEN wire.echo
    ELSE IF wire.echo = <<>> /\ checksum(Slice(wire.reply, 0, Len(wire.reply) - 1)) = Last(wire.reply)
      THEN wire.reply
    ELSE <<>>

\* C11: resync.  For every garbage G (0x80 bytes included) and every valid
\* frame F, once G followed by F has been fed to the parser, in one piece or
\* byte by byte, F is among the frames it returned; no further input is needed.
C11_ResyncYieldsFrame ==
    (C11_Frame # <<>> /\ fr_pc # "request" /\ rx_pos = Len(Line)) =>
        \E j \in 1..Len(rx_frames) : rx_frames[j] = C11_Frame

\* a 0x80 header whose declared length has arrived and whose checksum does not match
C12_BadHeaderSeen ==
    \E i \in 1..Len(Received) :
        /\ Received[i] = 128
        /\ i + 3 <= Len(Received)
        /\ i + 4 + Received[i + 3] <= Len(Received)
        /\ checksum(SubSeq(Received, i, i + 3 + Received[i + 3])) # Received[i + 4 + Received[i + 3]]

\* C12: request ends in exactly one of three ways: it returns the inner payload
\* of the first valid frame addressed ECU to tester (echo frames are dropped);
\* it fails with Timeout when no valid frame arrived before the deadline; it
\* fails with a distinct FrameError when a 0x80 header was seen but its
\* checksum never matched.
C12_RequestOutcomes ==
    /\ fr_pc = "returned" =>
           /\ req.error = ""
           /\ \E j \in 1..Len(rx_frames) :
                  /\ is_reply(rx_frames[j], ecu_addr)
                  /\ req.result = frame_payload(rx_frames[j])
                  /\ \A m \in 1..(j - 1) : ~is_reply(rx_frames[m], ecu_addr)
    /\ fr_pc = "raised" =>
           /\ req.error \in {"TimeoutError", "FrameError"}
           /\ \A j \in 1..Len(rx_frames) : ~is_reply(rx_frames[j], ecu_addr)
           /\ req.error = "FrameError" <=> (rx_frames = <<>> /\ C12_BadHeaderSeen)

\* C13: while armed, 0 <= lap_progress_m <= lap_len_m (every s_m is in 0..L).
C13_ProgressWithinLap ==
    timing.armed => (0 <= timing.lap_progress_m /\ timing.lap_progress_m <= timing.lap_len_m)

\* C13 witness: a lap was completed and the next one carries progress over
C13_Witness ==
    /\ timing.armed
    /\ timing.lap_count >= 1
    /\ timing.lap_progress_m > 0
    /\ timing.lap_len_m = LapLen

\* C14: the defined entries of current_splits are non-decreasing in index
\* order, and each is at most the current lap time the snapshot reports.
C14_SplitsOrderedWithinLapTime ==
    LET cs == timing.current_splits
    IN  /\ \A i, j \in 1..3 :
               (i < j /\ cs[i] # None /\ cs[j] # None) => cs[i][1] <= cs[j][1]
        /\ \A i \in 1..3 :
               cs[i] # None =>
                   /\ LapSnapshot.current_lap_sec # None
                   /\ cs[i][1] <= LapSnapshot.current_lap_sec[1]

\* ds of an update from prev to s on a lap of length L, corrected by +/-L when |ds| > L/2
C15_Ds(prev, s, L) ==
    LET d == s - prev
    IN  IF 2 * d > L THEN d - L ELSE IF 2 * d < -L THEN d + L ELSE d

\* C15: a new LapTiming is not armed.  An update of an unarmed state arms it
\* exactly when the wrapped ds is > 0 and s < 0.12 L; on arming lap_start_ts
\* is the ts of the update, lap_progress_m = 0, current_splits are all none,
\* and the update returns no lap and leaves no split to report.
C15_ArmsJustPastStart ==
    /\ ~timing.armed
    /\ [][~timing.armed =>
            LET s == timing'.prev_s[1]
                L == timing.lap_len_m
            IN  /\ timing'.armed <=>
                       /\ timing.prev_s # None
                       /\ C15_Ds(timing.prev_s[1], s, L) > 0
                       /\ 100 * s < 12 * L
                /\ timing'.armed =>
                       /\ timing'.lap_start_ts = lap_obs'.ts_sec
                       /\ timing'.lap_progress_m = 0
                       /\ timing'.current_splits = None3
                /\ lap_obs'.ret = None
                /\ timing'.current_splits = timing.current_splits
                /\ timing'.lap_count = timing.lap_count
        ]_vars

\* C15 witness: armed by an update that came over the start line to s = 0
C15_Witness ==
    /\ timing.lap_len_m = LapLen
    /\ timing.armed
    /\ timing.lap_count = 0
    /\ timing.lap_progress_m = 0
    /\ timing.prev_s = Some(0)
    /\ timing.lap_start_ts = lap_obs.ts_sec

\* C16: a completed lap below MIN_VALID_LAP_SEC increments lap_count and sets
\* last_lap and last_splits but leaves best_lap, best_splits and
\* best_split_segments as they were; best_lap is undefined or >= 20 s in
\* every state, and never increases.
C16_ShortLapLeavesBest ==
    /\ timing.best_lap = None
    /\ [][/\ (lap_obs'.ret # None /\ lap_obs'.ret[1].lap_time_sec < MIN_VALID_LAP_SEC) =>
                /\ timing'.lap_count = timing.lap_count + 1
                /\ timing'.last_lap = Some(lap_obs'.ret[1].lap_time_sec)
                /\ timing'.last_splits = lap_obs'.ret[1].splits_sec
                /\ timing'.best_lap = timing.best_lap
                /\ timing'.best_splits = timing.best_splits
                /\ timing'.best_split_segments = timing.best_split_segments
          /\ timing'.best_lap # None => timing'.best_lap[1] >= MIN_VALID_LAP_SEC
          /\ timing.best_lap # None =>
                /\ timing'.best_lap # None
                /\ timing'.best_lap[1] <= timing.best_lap[1]
        ]_vars

\* C16 witness: a lap of 20 s set the best lap, a shorter lap after it did not
C16_Witness ==
    /\ timing.lap_count = 2
    /\ timing.best_lap = Some(MIN_VALID_LAP_SEC)
    /\ timing.last_lap # None
    /\ timing.last_lap[1] < MIN_VALID_LAP_SEC
    /\ timing.last_lap[1] > 0

\* the state after the five fixes of the lap wrap scenario
C17_ScenarioFed == lap_obs.scen = Len(WrapScenario.fixes)

\* C17 (as claimed): L = 3000, fixes at 100, 1100, 2100, 2950, 50 m with
\* timestamps 0, 20, 40, 58, 62 give splits 20, 40, 58, one completed lap with
\* lap_time 58, and the next lap armed with start time 58.
C17_WrapScenarioLap ==
    C17_ScenarioFed =>
        /\ Len(lap_obs.laps) = 1
        /\ lap_obs.laps[1].lap_time_sec = 58
        /\ lap_obs.laps[1].splits_sec = <<Some(20), Some(40), Some(58)>>
        /\ timing.armed
        /\ timing.lap_start_ts = 58

\* C17 (amended): the first four fixes leave the state unarmed; the fifth
\* (2950 -> 50, ds = +100) arms the first lap with start time 62; no split is
\* captured and no lap completed.
C17_WrapScenarioArms ==
    /\ (lap_obs.scen >= 0 /\ lap_obs.scen < Len(WrapScenario.fixes)) =>
           /\ ~timing.armed
           /\ timing.current_splits = None3
           /\ timing.lap_count = 0
    /\ C17_ScenarioFed =>
           /\ lap_obs.laps = <<>>
           /\ timing.lap_count = 0
           /\ timing.last_lap = None
           /\ timing.armed
           /\ timing.lap_start_ts = 62
           /\ timing.lap_progress_m = 0
           /\ timing.current_splits = None3

\* C17 witness: the scenario was fed whole and its last fix is the current one
C17_Witness ==
    /\ C17_ScenarioFed
    /\ timing.lap_len_m = WrapScenario.lap_len
    /\ timing.prev_s = Some(50)
    /\ lap_obs.ts_sec = 62
    /\ timing.armed

\* C18: from a lap start to the lap completion each split is captured once and
\* in index order, split 3 in the update that completes the lap and before the
\* rollover clears the splits: a lap row has three defined splits, the third
\* equal to lap_time_sec; an update completes at most one lap.
C18_SplitsOncePerLap ==
    [][LET cs == timing.current_splits
           ret == lap_obs'.ret
       IN  /\ timing'.lap_count = timing.lap_count + (IF ret # None THEN 1 ELSE 0)
           /\ ret # None =>
                 /\ \A i \in 1..3 : ret[1].splits_sec[i] # None
                 /\ ret[1].splits_sec[3] = Some(ret[1].lap_time_sec)
                 /\ \A i \in 1..3 : cs[i] # None => ret[1].splits_sec[i] = cs[i]
                 /\ ret[1].lap_number = timing'.lap_count
                 /\ timing'.current_splits = None3
           /\ (ret = None /\ timing.armed) =>
                 \A i \in 1..3 : cs[i] # None => timing'.current_splits[i] = cs[i]
           /\ \A i \in 1..2 :
                 timing'.current_splits[i + 1] # None => timing'.current_splits[i] # None
           /\ timing'.current_splits[3] = None
      ]_vars

\* C18 witness: a lap row whose first split was captured before the others
C18_Witness ==
    /\ lap_obs.ret # None
    /\ lap_obs.ret[1].splits_sec[1] # None
    /\ lap_obs.ret[1].splits_sec[1][1] > 0
    /\ lap_obs.ret[1].splits_sec[1][1] < lap_obs.ret[1].splits_sec[3][1]
    /\ timing.lap_count = 1

\* C19: a fix whose projection error exceeds MAX_TRACK_ERROR_M is discarded
\* before timing: the update leaves latest, seq, history, the timing of every
\* driver and the records store as they were and publishes no split or lap
\* event.
C19_OutlierDiscarded ==
    [][(hud_obs'.op = "update" /\ hud_obs'.err_m > MAX_TRACK_ERROR_M)
          => /\ hud'.latest = hud.latest
             /\ hud'.seq = hud.seq
             /\ hud'.history = hud.history
             /\ hud'.timings = hud.timings
             /\ store' = store
             /\ hud_obs'.split_events = {}
             /\ hud_obs'.lap_event = None]_vars

\* an off-track fix was dropped while the active driver's lap was running; only
\* the segment hint moved
C19_Witness ==
    /\ hud # <<>>
    /\ hud_obs.op = "update"
    /\ hud_obs.err_m > MAX_TRACK_ERROR_M
    /\ hud.latest # None
    /\ hud.timings[hud.active_driver].armed
    /\ hud.last_seg_idx # seg_of(hud.latest[1].track_s_m)

\* the fields of a LapTiming that are loaded from the records file
Recovered(t) ==
    <<t.best_lap, t.best_splits, t.best_split_segments, t.last_lap, t.last_splits, t.lap_count>>

\* C20: a SharedState built from the records file of the previous run gives
\* every driver a LapTiming whose best_lap, best_splits, best_split_segments,
\* last_lap, last_splits and lap_count are those the driver's LapTiming held
\* when the previous run ended.
C20_RecoveryKeepsTimings ==
    [][hud_obs'.op = "restart"
          => \A d \in Drivers : Recovered(hud'.timings[d]) = Recovered(hud.timings[d])]_vars

\* C21: the records file is written atomically: at every instant, a crash
\* inside persist() included, the file holds the complete document it held
\* before the persist in progress or the complete new document.
C21_RecordsFileComplete ==
    \/ disk.file = disk.prev
    \/ disk.file = Some(json_dumps(store))

\* C22: work in progress on the spool is safe: when the process stops at any
\* point of an append, a drop_first_lines or a trim, every sample that was
\* spooled and is not yet published is still in the spool file.
C22_CrashLosesNoSpooledSample ==
    disk.pc = "down" => disk.owed \subseteq Seqs(lines)

\* every lap row of the records document lies in the session its session_id names
C23_RowsInTheirSession ==
    \A d \in Drivers : \A kj \in RowKeys(store, d) :
        /\ RowAt(store, d, kj).session_id = kj[1]
        /\ RowAt(store, d, kj).driver = d

\* C23: reset_session raises the driver's current_session_id by exactly 1,
\* creates an empty session under the new id and returns that id; the laps of
\* every earlier session and of every other driver stay as they are.  Over any
\* sequence of add_lap and reset_session calls the session ids of a driver
\* never go back, and every stored lap row lies in the session whose id is
\* the row's session_id.
C23_ResetSessionOpensNext ==
    /\ []C23_RowsInTheirSession
    /\ [][\A d \in Drivers :
             /\ store'[d].current_session_id >= store[d].current_session_id
             /\ (hud_obs'.op # "reset" \/ d # hud.active_driver)
                   => store'[d].current_session_id = store[d].current_session_id
             /\ (hud_obs'.op = "reset" /\ d = hud.active_driver)
                   => /\ store'[d].current_session_id = store[d].current_session_id + 1
                      /\ Len(store'[d].sessions) = store'[d].current_session_id
                      /\ store'[d].sessions[store'[d].current_session_id] = <<>>
                      /\ SubSeq(store'[d].sessions, 1, Len(store[d].sessions)) = store[d].sessions
                      /\ hud_obs'.ret = Some([driver |-> d,
                                              session_id |-> store'[d].current_session_id])]_vars

\* a session was reset after a lap had been stored in it
C23_Witness ==
    /\ hud # <<>>
    /\ hud_obs.op = "reset"
    /\ store[hud.active_driver].current_session_id = 2
    /\ Len(store[hud.active_driver].sessions[1]) = 1

\* C24: when, with a live client, every SSM2 read of an iteration fails
\* through all retries and chunk splits, the loop counts the failure in
\* serial_failures and leaves Run: the client is dropped, so that the next
\* pass retries the serial initialisation.
C24_DeadLineLeavesRun ==
    [][(/\ ecu_link.client
        /\ ecu_link.line = "down"
        /\ ecu_link'.stats.samples_total = ecu_link.stats.samples_total + 1
        /\ ecu_link'.last.op = "run")
          => /\ ecu_link'.stats.serial_failures = ecu_link.stats.serial_failures + 1
             /\ ~ecu_link'.client]_vars

\* the accepted definitions in the order of the depth-first walk of the call
C25_Met == walk(fcall.arg, "ecu", [visited_types |-> {}, met |-> <<>>]).met

\* the positions of the definitions of the id `name` in the walk
C25_At(name) == { j \in 1..Len(C25_Met) : C25_Met[j].id = name }

\* the ids of the walk in the order of their first definitions
C25_FirstIds ==
    LET firsts == SelectSeq([j \in 1..Len(C25_Met) |-> <<j, C25_Met[j].id>>],
                            LAMBDA x : \A i \in 1..(x[1] - 1) : C25_Met[i].id # x[2])
    IN  [j \in 1..Len(firsts) |-> firsts[j][2]]

\* C25 as stated: the list holds every id once, with the attributes of the
\* first definition met along the walk.
C25_KeepsFirstDefinition ==
    fcall.ret # None =>
        LET final == fcall.ret[1].final
        IN  /\ [j \in 1..Len(final) |-> final[j].name] = C25_FirstIds
            /\ \A j \in 1..Len(final) :
                  \A i \in C25_At(final[j].name) :
                      (\A h \in C25_At(final[j].name) : i <= h)
                          => final[j].attrs = C25_Met[i].attrs

\* C25 amended: the list holds every id once, at the place of the id's first
\* definition along the walk (included parents before the node's own
\* parameters), with the attributes of the last definition of that id.
C25_KeepsPlaceOfFirstValueOfLast ==
    fcall.ret # None =>
        LET final == fcall.ret[1].final
        IN  /\ [j \in 1..Len(final) |-> final[j].name] = C25_FirstIds
            /\ \A j \in 1..Len(final) :
                  \A i \in C25_At(final[j].name) :
                      (\A h \in C25_At(final[j].name) : i >= h)
                          => final[j].attrs = C25_Met[i].attrs

\* an id defined by the included parent and, with other attributes, by the ecu
C25_Witness ==
    /\ fcall # <<>>
    /\ fcall.fn = "params_for_rom"
    /\ fcall.ret # None
    /\ fcall.arg["ecu"].include = <<"base">>
    /\ fcall.arg["base"].parameters = <<[id |-> "Load", attrs |-> 1, parses |-> TRUE]>>
    /\ fcall.arg["ecu"].parameters = <<[id |-> "load", attrs |-> 1, parses |-> TRUE],
                                       [id |-> "Load", attrs |-> 2, parses |-> TRUE]>>
    /\ fcall.ret[1].final = <<[name |-> "Load", topic |-> <<"load">>, attrs |-> 2],
                              [name |-> "load", topic |-> <<"load", 2>>, attrs |-> 1]>>

\* the call of decode_rr_params has returned
C26_Returned == fcall # <<>> /\ fcall.fn = "decode_rr_params" /\ fcall.ret # None

\* all `size` consecutive bytes of the parameter p are in the address-value map
C26_AllPresent(p) ==
    \A i \in 0..(p.size - 1) : p.addr + i \in DOMAIN fcall.arg.data_by_addr

\* C26: for every address-value map, maps with missing bytes included, and
\* every parameter list, the metrics and the units that decode_rr_params
\* returns have the same keys, and these keys are the topics of exactly the
\* parameters all of whose `size` consecutive bytes are in the map.
C26_SameKeysAllBytes ==
    C26_Returned =>
       LET params == fcall.arg.params
           ret == fcall.ret[1]
       IN  /\ DOMAIN ret.metrics = DOMAIN ret.units
           /\ DOMAIN ret.metrics =
                 { params[k].topic : k \in { j \in 1..Len(params) : C26_AllPresent(params[j]) } }

\* a two-byte parameter whose second byte is missing is left out, next to a
\* parameter that is decoded
C26_Witness ==
    /\ C26_Returned
    /\ Len(fcall.arg.params) = 2
    /\ fcall.arg.params[1].size = 2
    /\ fcall.arg.params[1].addr \in DOMAIN fcall.arg.data_by_addr
    /\ ~C26_AllPresent(fcall.arg.params[1])
    /\ C26_AllPresent(fcall.arg.params[2])
    /\ DOMAIN fcall.ret[1].metrics = {"p2"}
    /\ DOMAIN fcall.ret[1].units = {"p2"}

\* the expression of p is rejected when it is compiled, or its evaluator raises
C27_Falls(p) ==
    \/ p.expr # "" /\ compile_expr(p.expr) = None
    \/ compile_expr(p.expr) # None
         /\ evaluate(p.expr, raw_value_of(fcall.arg.data_by_addr, p), <<>>).raised

\* C27: decode_rr_params never raises because of an expression: a parameter
\* whose expression the sandbox rejected at compile time, or whose evaluator
\* raises, gets its raw value rounded to `decimals` places as its metric,
\* and every other parameter whose bytes are there is decoded all the same.
C27_ExpressionNeverRaises ==
    C26_Returned =>
       LET params == fcall.arg.params
           ret == fcall.ret[1]
       IN  /\ ~ret.raised
           /\ \A k \in 1..Len(params) :
                 C26_AllPresent(params[k]) =>
                    /\ params[k].topic \in DOMAIN ret.metrics
                    /\ C27_Falls(params[k]) =>
                          ret.metrics[params[k].topic] =
                             round(raw_value_of(fcall.arg.data_by_addr, params[k]),
                                   Max(0, params[k].decimals))

\* the evaluator of the first parameter raises, the second one is decoded with
\* its own expression
C27_Witness ==
    /\ C26_Returned
    /\ Len(fcall.arg.params) = 2
    /\ fcall.arg.params[1].expr = "value/0"
    /\ fcall.arg.params[2].expr = "value/8"
    /\ fcall.arg.params[2].decimals = 0
    /\ fcall.arg.params[2].storagetype = "uint8"
    /\ C26_AllPresent(fcall.arg.params[1])
    /\ C26_AllPresent(fcall.arg.params[2])
    /\ ~fcall.ret[1].raised
    /\ fcall.ret[1].metrics["p1"] = 255000
    /\ fcall.ret[1].metrics["p2"] = 0

\* both copies of enumerate_supported_dtc_addr_pairs have returned
C28_Returned ==
    /\ fcall # <<>>
    /\ fcall.fn = "enumerate_supported_dtc_addr_pairs"
    /\ fcall.ret # None
    /\ fcall.ret_read_error_codes # None

\* the pairs the copy of ssm_logger.py returned, as a set
C28_Pairs == { fcall.ret[1][2][i] : i \in DOMAIN fcall.ret[1][2] }

\* (a, a+32) for 0x8E..0xAD, (a, a+4) for 0xF0..0xF3, (a, a+8) for 0x123..0x12A
C28_ThreeRanges ==
    { <<a, a + 32>> : a \in 142..173 } \cup { <<a, a + 4>> : a \in 240..243 }
       \cup { <<a, a + 8>> : a \in 291..298 }

\* with bit 29.7 set only (a, a+22) for a in 0x8E..0x98, and the two copies agree
C28_NonObd2AndCopies ==
    /\ (Cardinality(DOMAIN fcall.arg) >= 30 /\ fcall.arg[29] >= 128) =>
          /\ C28_Pairs = { <<a, a + 22>> : a \in 142..152 }
          /\ Len(fcall.ret[1][2]) = 11
          /\ fcall.ret[1][1] = FALSE
    /\ fcall.ret_read_error_codes = fcall.ret

\* C28 as stated: the pairs of a non-OBD2 vector are (a, a+22), 0x8E..0x98; a
\* vector of 33 bytes with bit 29.7 clear and bits 29.4 and 28.0 set (it has
\* no byte 39 that could hold bit 39.7) gives the three ranges 0x8E..0xAD,
\* 0xF0..0xF3 and 0x123..0x12A; the two copies return the same.
C28_Length33GivesThreeRanges ==
    C28_Returned =>
       /\ C28_NonObd2AndCopies
       /\ (Cardinality(DOMAIN fcall.arg) = 33 /\ fcall.arg[29] = 16 /\ fcall.arg[28] = 1) =>
             C28_Pairs = C28_ThreeRanges

\* C28, amended: the pairs of a non-OBD2 vector are (a, a+22), 0x8E..0x98; a
\* vector of at least 40 bytes in which, of the bits the enumeration looks at,
\* exactly 29.4, 28.0 and 39.7 are set gives exactly the three ranges
\* 0x8E..0xAD, 0xF0..0xF3 and 0x123..0x12A, each pair once; a vector of 33
\* bytes with bits 29.4 and 28.0 gives the first two ranges only; the two
\* copies return the same for every vector.
C28_Length40GivesThreeRanges ==
    C28_Returned =>
       /\ C28_NonObd2AndCopies
       /\ (/\ Cardinality(DOMAIN fcall.arg) >= 40
           /\ fcall.arg[29] = 16
           /\ fcall.arg[28] = 1
           /\ fcall.arg[39] \in {128, 129}
           /\ Cardinality(DOMAIN fcall.arg) > 50 => fcall.arg[50] = 0) =>
             /\ C28_Pairs = C28_ThreeRanges
             /\ Len(fcall.ret[1][2]) = 44
             /\ fcall.ret[1][1] = TRUE
       /\ (Cardinality(DOMAIN fcall.arg) = 33 /\ fcall.arg[29] = 16 /\ fcall.arg[28] = 1) =>
             C28_Pairs = { <<a, a + 32>> : a \in 142..173 } \cup { <<a, a + 4>> : a \in 240..243 }

\* a vector of 40 bytes with bits 29.4, 28.0 and 39.7 has given the three ranges
C28_Witness ==
    /\ C28_Returned
    /\ Cardinality(DOMAIN fcall.arg) = 40
    /\ fcall.arg[29] = 16
    /\ fcall.arg[28] = 1
    /\ fcall.arg[39] = 128
    /\ C28_Pairs = C28_ThreeRanges
    /\ fcall.ret_read_error_codes = fcall.ret

\* C29: every projection of a fix, with its read and write of last_seg_idx,
\* and every timing update runs while the SharedState mutex is held, so that
\* no HTTP handler (snapshot, set_driver, reset-session) has run between the
\* projection of a fix and the timing update that consumes it: the timing
\* update is applied for the driver that was active at the projection.
C29_ProjectionUnderMutex ==
    /\ thr.mqtt.pc = "projected" => thr.lock = "mqtt"
    /\ thr.mqtt.pc \in {"splits", "lap"} =>
          /\ thr.lock = "mqtt"
          /\ thr.mqtt.handlers = 0
          /\ thr.mqtt.driver_then = Some(hud.active_driver)

\* C30: the SharedState mutex is never held across network I/O: while an MQTT
\* publish of a split or lap event or an InfluxDB write is under way the
\* mutex is free, and no HTTP handler has to wait for the lock meanwhile.
C30_NoNetworkUnderMutex ==
    thr.net # None => (thr.lock = "free" /\ ~thr.waited)

\* C31: every serial handle opened by the telemetry loop is closed before
\* another one is opened and before cmd_mqtt returns: at most one handle is
\* open, it is the one held in ser, none is open while the loop has no client,
\* and after the return none is open, the MQTT background loop is stopped and
\* the client disconnected.
C31_HandlesClosed ==
    /\ Cardinality(ecu_link.open) <= 1
    /\ ecu_link.open \subseteq {ecu_link.ser[i] : i \in DOMAIN ecu_link.ser}
    /\ (ecu_link.pc = "loop" /\ ~ecu_link.client) => ecu_link.open = {}
    /\ ecu_link.pc = "returned" =>
          /\ ecu_link.open = {}
          /\ ecu_link.mqtt_loop # "running"
          /\ ecu_link.mqtt_disconnected

\* cmd_mqtt returned by KeyboardInterrupt after an initialisation failure and a
\* second handle, with the MQTT background loop started and stopped
C31_Witness ==
    /\ ecu_link.pc = "returned"
    /\ ecu_link.ret = Some(130)
    /\ ecu_link.opened >= 2
    /\ ecu_link.stats.serial_failures >= 1
    /\ ecu_link.mqtt_loop = "stopped"

RECURSIVE C32_Pow(_, _)
C32_Pow(b, k) == IF k = 0 THEN 1 ELSE b * C32_Pow(b, k - 1)

\* min(backoff_max, b0 * 1.5^(k-1)) as a fraction
C32_Delay(k, backoff_max) ==
    LET num == backoff_start.num * C32_Pow(3, k - 1)
        den == backoff_start.den * C32_Pow(2, k - 1)
    IN  IF num >= backoff_max * den THEN [num |-> backoff_max, den |-> 1]
        ELSE [num |-> num, den |-> den]

C32_Degraded(k) ==
    ecu_link'.last.op = "init_failed" =>
       /\ ecu_link'.last.state_file = "degraded"
       /\ ~ecu_link'.client
       /\ ecu_link'.pc = "loop"
       /\ LET d == ecu_link'.last.delay[1]
              c == C32_Delay(k, ecu_link.args.backoff_max)
          IN  /\ d.num * c.den = c.num * d.den
              /\ d.num <= ecu_link.args.backoff_max * d.den

C32_Reset ==
    (\/ ecu_link'.last.op = "init_ok"
     \/ ecu_link'.last.op = "run" /\ ecu_link'.last.state_file = "running") =>
       ecu_link'.backoff = backoff_start

\* C32 as stated: a failure during Init puts the loop in Degraded (state file
\* written, sleep, retry), the delay of the k-th consecutive Init failure is
\* min(backoff_max, b0 * 1.5^(k-1)), and the backoff is b0 after a successful
\* init or publish.
C32_DelayOfKthInitFailure ==
    [][C32_Degraded(ecu_link'.fails.init) /\ C32_Reset]_vars

\* C32, amended: the same with k counting the consecutive failures of the loop,
\* Init failures and unhandled loop errors alike, since the last successful
\* init or publish.
C32_DelayOfKthLoopFailure ==
    [][C32_Degraded(ecu_link'.fails.all) /\ C32_Reset]_vars

\* the third failure in a row, an Init failure after an unhandled loop error,
\* sleeps the capped delay
C32_Witness ==
    /\ ecu_link.last.op = "init_failed"
    /\ ecu_link.fails.all = 3
    /\ ecu_link.fails.init < 3
    /\ ecu_link.last.delay = Some([num |-> ecu_link.args.backoff_max, den |-> 1])
    /\ ecu_link.args.backoff_max < BACKOFF_MAX

\* C33: a publish counts as successful only if the broker acknowledged it
\* within the timeout: a sample whose publish was not acknowledged is spooled
\* and not counted in samples_ok, and an unacknowledged publish raises.
C33_UnackedIsSpooled ==
    /\ fcall.stats.samples_ok =
          Cardinality({j \in DOMAIN fcall.log :
                          fcall.log[j].topic = "data" /\ fcall.log[j].acked})
    /\ \A j \in DOMAIN fcall.log :
          (fcall.log[j].topic = "data" /\ ~fcall.log[j].acked) => fcall.log[j].spooled
    /\ (fcall.fn # "start" /\ ~fcall.arg.is_published) => fcall.ret.raised

\* C34: read_chunked terminates, in strict and in best-effort mode, whatever
\* reads fail: it returns or raises; each pass of its loop either advances the
\* position with the chunk size unchanged or keeps the position and strictly
\* decreases the chunk size, or raises; the chunk size never grows.
C34_ReadChunkedTerminates ==
    /\ <>(rc.pc # "loop")
    /\ [][/\ rc'.chunk_size <= rc.chunk_size
          /\ link_log'.passes = link_log.passes + 1 =>
                \/ rc'.i > rc.i /\ rc'.chunk_size = rc.chunk_size
                \/ rc'.i = rc.i /\ rc'.chunk_size < rc.chunk_size
                \/ rc'.pc = "raised" /\ ~rc_args.best_effort]_vars

\* a best-effort call returned after every read failed: the chunk size went
\* down to one address and every address was skipped
C34_Witness ==
    /\ rc.pc = "returned"
    /\ rc_args.best_effort
    /\ rc_args.n = MaxAddrs
    /\ rc_args.chunk_size = MaxChunk
    /\ rc_args.retries = -1
    /\ rc.chunk_size = 1
    /\ rc.out = {}
    /\ link_log.passes > rc_args.n

\* the stages an iteration of the loop ends in: the sample was counted and the
\* state file written, or the outer except branch ran
C35_RunEnded == ecu_link'.last.op = "run" /\ ecu_link'.stats.samples_total = ecu_link.stats.samples_total + 1

C35_OneCounter ==
    /\ ecu_link'.seq = ecu_link'.stats.samples_total
    /\ \/ /\ ecu_link'.stats.samples_ok = ecu_link.stats.samples_ok + 1
          /\ ecu_link'.stats.samples_spooled = ecu_link.stats.samples_spooled
       \/ /\ ecu_link'.stats.samples_ok = ecu_link.stats.samples_ok
          /\ ecu_link'.stats.samples_spooled = ecu_link.stats.samples_spooled + 1

\* C35 as stated: at the end of every Run iteration that had no file I/O error
\* samples_total = samples_ok + samples_spooled, seq of the sample equals
\* samples_total, and exactly one of the two counters was incremented in the
\* iteration.
C35_TotalIsOkPlusSpooled ==
    [][C35_RunEnded =>
         /\ ecu_link'.stats.samples_total =
               ecu_link'.stats.samples_ok + ecu_link'.stats.samples_spooled
         /\ C35_OneCounter]_vars

\* C35, amended: at the end of every Run iteration that had no file I/O error
\* samples_total = samples_ok + samples_spooled + the number of earlier
\* iterations in which spool.append raised, seq of the sample equals
\* samples_total, and exactly one of the two counters was incremented; so the equation of the claim
\* holds as long as no spool.append has raised.
C35_TotalIsOkPlusSpooledPlusUncounted ==
    [][C35_RunEnded =>
         /\ ecu_link'.stats.samples_total =
               ecu_link'.stats.samples_ok + ecu_link'.stats.samples_spooled
                 + ecu_link'.uncounted
         /\ ecu_link'.uncounted = ecu_link.uncounted
         /\ C35_OneCounter]_vars

\* a run with a published and a spooled sample and no failed spool.append
C35_Witness ==
    /\ ecu_link.last.op = "run"
    /\ ecu_link.stats.samples_ok >= 1
    /\ ecu_link.stats.samples_spooled >= 1
    /\ ecu_link.uncounted = 0
    /\ ecu_link.stats.samples_total = MaxSamples

\* a seq of this run, and the index of the first line of the spool that this
\* run appended when they are the last lines of the file
C36_OfThisRun(seq) == seq <= MaxAppends

C36_First == Len(lines) - Cardinality({i \in DOMAIN lines : C36_OfThisRun(lines[i].seq)}) + 1

\* from line `first` on the spool holds samples in strictly increasing seq
\* order which are a contiguous run of the samples appended, and a sample of
\* the run removed by trim is older than every sample that remains and is
\* never the sample just appended
C36_ContiguousOldestLost(first) ==
    /\ \A i \in first..(Len(lines) - 1) : lines[i].seq < lines[i + 1].seq
    /\ \A i \in first..Len(lines) : lines[i].seq \in disk.spooled
    /\ first <= Len(lines) =>
          /\ Cardinality({s \in disk.spooled :
                             lines[first].seq <= s /\ s <= lines[Len(lines)].seq})
               = Len(lines) - first + 1
          /\ \A s \in disk.trimmed : C36_OfThisRun(s) => s < lines[first].seq
    /\ appended \notin disk.trimmed

\* C36 as stated: within one run the spool holds samples in strictly
\* increasing seq order, its content is a contiguous run of the appended
\* samples, and trim removes samples older than all that remain.
C36_SpoolStrictlyIncreasing ==
    /\ \A i \in 1..(Len(lines) - 1) : lines[i].seq < lines[i + 1].seq
    /\ C36_ContiguousOldestLost(C36_First)

\* C36, amended: the same of the samples the run appended, which follow the
\* lines an earlier run left in the spool file.
C36_AppendedStrictlyIncreasing ==
    LET first == C36_First
    IN  /\ \A i \in 1..(first - 1) : ~C36_OfThisRun(lines[i].seq)
        /\ C36_ContiguousOldestLost(first)

\* the 100th append trimmed the spool: samples of this run were lost, the two
\* newest remain, and one sample of the run was published directly
C36_Witness ==
    /\ max_entries = 2
    /\ Len(lines) = 2
    /\ lines[2].seq = appended
    /\ Cardinality(disk.trimmed) > TRIM_EVERY - 2
    /\ Cardinality(disk.spooled) < appended

C38_ProgressWithinNetAdvance ==
    timing.armed => timing.lap_progress_m <= lap_obs.net

\* C38, amended: while armed lap_progress_m is never less than the net
\* advance since the lap start plus the carry-over, and equal to it as long
\* as no step of the lap went backward.
C38_ProgressIsForwardSteps ==
    timing.armed =>
       /\ timing.lap_progress_m >= lap_obs.net
       /\ ~lap_obs.back => timing.lap_progress_m = lap_obs.net

\* a lap without a backward step, well under way
C38_Witness ==
    /\ timing.armed
    /\ ~lap_obs.back
    /\ timing.lap_count = 1
    /\ timing.lap_progress_m = lap_obs.net
    /\ 2 * timing.lap_progress_m >= timing.lap_len_m

\* current_splits[i] is defined if and only if lap_progress_m >= split_dist[i]
C39_DefinedIffReached ==
    \A i \in 1..3 :
       timing.current_splits[i] # None <=> 3 * timing.lap_progress_m >= i * timing.lap_len_m

\* when the snapshot reports current_split_idx = k > 1, the cumulative time of
\* split k-1 is defined, and the live delta is computable when a best segment
\* exists
C39_DeltaComputable ==
    LET sn == snapshot(timing, lap_obs.ts_sec)
    IN  sn.current_split_idx > 1 =>
           /\ timing.current_splits[sn.current_split_idx - 1] # None
           /\ timing.best_split_segments[sn.current_split_idx] # None =>
                 sn.split_delta_sec # None

\* C39 as stated: after every update of an armed LapTiming current_splits[i]
\* is defined if and only if lap_progress_m >= split_dist[i], so the split
\* before the current one is defined and the live delta computable.
C39_SplitsFollowProgress ==
    timing.armed => (C39_DefinedIffReached /\ C39_DeltaComputable)

\* C39, amended: the same after every update that did not complete a lap;
\* after an update that completed a lap all current_splits are undefined and
\* lap_progress_m is the carry-over; a defined split is always one the
\* progress has reached.
C39_SplitsFollowProgressWithinLap ==
    timing.armed =>
       /\ lap_obs.ret = None => (C39_DefinedIffReached /\ C39_DeltaComputable)
       /\ lap_obs.ret # None => timing.current_splits = None3
       /\ \A i \in 1..3 :
             timing.current_splits[i] # None =>
                3 * timing.lap_progress_m >= i * timing.lap_len_m

\* an update took the progress over two splits at once; both are defined, a
\* best segment exists and the live delta is reported
C39_Witness ==
    /\ timing.armed
    /\ lap_obs.ret = None
    /\ timing.lap_count >= 1
    /\ timing.current_splits[1] # None
    /\ timing.current_splits[1] = timing.current_splits[2]
    /\ snapshot(timing, lap_obs.ts_sec).current_split_idx = 3
    /\ snapshot(timing, lap_obs.ts_sec).split_delta_sec # None

\* the lap rows of the current session of driver d
C40_CurrentRows(d) == store[d].sessions[current_session_id(store, d)]

\* C40: for every driver and in every reachable state of SharedState (GPS
\* updates, set_driver, reset-session and restarts in any order) the driver's
\* LapTiming.lap_count equals the number of lap rows stored in the driver's
\* current session, and the lap_number values of the session are 1, 2, 3, ...
\* without gaps or duplicates.
C40_LapCountIsRowsOfSession ==
    hud # <<>> =>
       \A d \in Drivers :
          /\ hud.timings[d].lap_count = Len(C40_CurrentRows(d))
          /\ \A j \in 1..Len(C40_CurrentRows(d)) : C40_CurrentRows(d)[j].lap_number = j

\* the server was restarted on a records file in which a driver's current
\* session holds a lap; the restored LapTiming counts it
C40_Witness ==
    /\ hud # <<>>
    /\ hud_obs.op = "restart"
    /\ \E d \in Drivers :
          /\ Len(C40_CurrentRows(d)) >= 1
          /\ hud.timings[d].lap_count = Len(C40_CurrentRows(d))

====
